---- MODULE Spec2Model ----
(***************************************************************************)
(* Model of the codeChatura server's extraction code:                      *)
(*   controllers/CodingChallengeController.js  (generateChallenge,         *)
(*     processAndSaveChallenge, repairJsonSyntax, repairJsonStructure,     *)
(*     createFallbackChallenge)                                            *)
(*   controllers/MCQChallengeController.js     (preprocessMarkdown,        *)
(*     generateMCQ)                                                        *)
(*   models/CodingChallengeSchema.js           (codingChallengeSchema)     *)
(*   models/MCQChallengeSchema.js              (mcqSchema)                 *)
(*                                                                         *)
(* A text is a sequence of characters; every character is a one-character  *)
(* string, except the control characters that TLA+ cannot write, which are *)
(* the named tokens SOH, DEL and BACKTICK.                                 *)
(***************************************************************************)
EXTENDS Integers, Sequences, FiniteSets, TLC

(***************************************************************************)
(* Characters and character classes of the JavaScript regular expressions. *)
(***************************************************************************)
Q == "\""
BS == "\\"
NL == "\n"
CR == "\r"
TAB == "\t"
SOH == "^A"
DEL == "^?"
BACKTICK == "^backtick"
LBRACE == "{"
RBRACE == "}"
LBRACK == "["
RBRACK == "]"

\* \s of a JavaScript regular expression, over the characters of the model
IsSpace(c) == c \in {" ", NL, CR, TAB}

\* [\x00-\x1F\x7F]
IsControl(c) == c \in {NL, CR, TAB, SOH, DEL}

Digits == {"0", "1", "2", "3", "4", "5", "6", "7", "8", "9"}

LowerLetters ==
    {"a", "b", "c", "d", "e", "f", "g", "h", "i", "j", "k", "l", "m",
     "n", "o", "p", "q", "r", "s", "t", "u", "v", "w", "x", "y", "z"}

UpperLetters ==
    {"A", "B", "C", "D", "E", "F", "G", "H", "I", "J", "K", "L", "M",
     "N", "O", "P", "Q", "R", "S", "T", "U", "V", "W", "X", "Y", "Z"}

\* \w of a JavaScript regular expression
IsWord(c) == c \in LowerLetters \cup UpperLetters \cup Digits \cup {"_"}

(***************************************************************************)
(* String primitives of JavaScript, on 1-based sequences.                   *)
(***************************************************************************)
\* s.substring(i - 1): the text from position i on
From(s, i) == SubSeq(s, i, Len(s))

\* whether pat occurs in s starting at position i
MatchesAt(s, i, pat) ==
    /\ i >= 1
    /\ i + Len(pat) - 1 <= Len(s)
    /\ \A k \in 1..Len(pat) : s[i + k - 1] = pat[k]

\* the least element of a non-empty set of integers
MinOf(S) == CHOOSE i \in S : \A j \in S : i <= j

\* the greatest element of a non-empty set of integers
MaxOf(S) == CHOOSE i \in S : \A j \in S : j <= i

\* s.indexOf(pat, from - 1) + 1: the first position >= from where pat occurs, 0 if none
IndexOf(s, pat, from) ==
    LET P == {i \in from..(Len(s) - Len(pat) + 1) : MatchesAt(s, i, pat)}
    IN  IF P = {} THEN 0 ELSE MinOf(P)

\* s.lastIndexOf(c) + 1: the last position of character c, 0 if none
LastIndexOfChar(s, c) ==
    LET P == {i \in 1..Len(s) : s[i] = c}
    IN  IF P = {} THEN 0 ELSE MaxOf(P)

\* s.includes(pat)
Includes(s, pat) == IndexOf(s, pat, 1) # 0

\* (s.match(/c/g) || []).length
CountChar(s, c) == Cardinality({i \in 1..Len(s) : s[i] = c})

\* c.repeat(n)
Repeat(c, n) == [i \in 1..n |-> c]

\* the first position >= i of s that holds no white space (Len(s) + 1 if none)
SkipSpace(s, i) ==
    MinOf({j \in i..(Len(s) + 1) : j > Len(s) \/ ~IsSpace(s[j])} \cup {Len(s) + 1})

\* the last position < i of s that holds no white space (0 if none)
PrevNonSpace(s, i) == MaxOf({j \in 1..(i - 1) : ~IsSpace(s[j])} \cup {0})

\* s.trimEnd()
TrimEnd(s) == SubSeq(s, 1, PrevNonSpace(s, Len(s) + 1))

\* s.trim()
Trim(s) == TrimEnd(From(s, SkipSpace(s, 1)))

\* the concatenation of pieces[lo], ..., pieces[hi]: the text a loop builds by
\* appending one piece per character
RECURSIVE Concat(_, _, _)
Concat(pieces, lo, hi) ==
    IF lo > hi THEN <<>>
    ELSE IF lo = hi THEN pieces[lo]
    ELSE LET mid == (lo + hi) \div 2
         IN  Concat(pieces, lo, mid) \o Concat(pieces, mid + 1, hi)

\* s.endsWith(c)
EndsWithChar(s, c) == s # <<>> /\ s[Len(s)] = c

(***************************************************************************)
(* repairJsonSyntax (CodingChallengeController.js, lines 362-410).         *)
(***************************************************************************)
\* lines 364-385: the character loop with its inString flag.  The flag, when the loop
\* is at i, is the parity of the quotes before i that the first branch (line 371) took.
EscapeStrings(s) ==
    LET Boundary(i) == s[i] = Q /\ (i = 1 \/ s[i - 1] # BS)
        boundaries == {i \in 1..Len(s) : Boundary(i)}
        inString(i) == Cardinality({k \in boundaries : k < i}) % 2 = 1
        Piece(i) ==
            LET char == s[i]
            IN  CASE Boundary(i) -> <<char>>
                  [] inString(i) /\ char = Q /\ s[i - 1] # BS -> <<BS, Q>>
                  [] inString(i) /\ char \in {NL, CR} -> <<BS, "n">>
                  [] OTHER -> <<char>>
    IN  Concat([i \in 1..Len(s) |-> Piece(i)], 1, Len(s))

\* lines 388-391: s.replace(/close(\s*)open/g, "close,\nopen").  A match starts at a
\* close whose next character after white space is open; the matches cannot overlap.
InsertComma(s, close, open) ==
    LET StartsMatch(i) ==
            /\ i >= 1
            /\ s[i] = close
            /\ LET j == SkipSpace(s, i + 1) IN j <= Len(s) /\ s[j] = open
        Piece(i) ==
            IF StartsMatch(i) THEN <<close, ",", NL>>
            ELSE IF IsSpace(s[i]) /\ StartsMatch(PrevNonSpace(s, i)) THEN <<>>
            ELSE <<s[i]>>
    IN  Concat([i \in 1..Len(s) |-> Piece(i)], 1, Len(s))

FixMissingCommas(s) ==
    LET r1 == InsertComma(s, RBRACE, LBRACE)
        r2 == InsertComma(r1, RBRACK, LBRACK)
        r3 == InsertComma(r2, RBRACE, LBRACK)
    IN  InsertComma(r3, RBRACK, LBRACE)

\* line 394: result.replace(/[\x00-\x1F\x7F]/g, "")
StripControl(s) == SelectSeq(s, LAMBDA c : ~IsControl(c))

\* lines 397-407: append the closing braces, then the closing brackets, that are missing
BalanceClosers(s) ==
    LET openBraces == CountChar(s, LBRACE)
        closeBraces == CountChar(s, RBRACE)
        r1 == IF openBraces > closeBraces
              THEN s \o Repeat(RBRACE, openBraces - closeBraces) ELSE s
        openBrackets == CountChar(r1, LBRACK)
        closeBrackets == CountChar(r1, RBRACK)
    IN  IF openBrackets > closeBrackets
        THEN r1 \o Repeat(RBRACK, openBrackets - closeBrackets) ELSE r1

repairJsonSyntax(jsonString) ==
    BalanceClosers(StripControl(FixMissingCommas(EscapeStrings(jsonString))))

(***************************************************************************)
(* JSON.parse (CodingChallengeController.js, lines 126, 142, 157), as the  *)
(* ECMAScript grammar defines it.  A JavaScript value is a record          *)
(*   [t |-> its type, s |-> the text of a string or number,                *)
(*    m |-> the elements of an array, or the members [k, v] of an object]. *)
(* The escape \uXXXX is outside the texts of the model and is not parsed.  *)
(***************************************************************************)
Undefined == [t |-> "undefined", s |-> <<>>, m |-> <<>>]
Null == [t |-> "null", s |-> <<>>, m |-> <<>>]
Bool(b) == [t |-> IF b THEN "true" ELSE "false", s |-> <<>>, m |-> <<>>]
Str(chars) == [t |-> "string", s |-> chars, m |-> <<>>]
Num(chars) == [t |-> "number", s |-> chars, m |-> <<>>]
Arr(elems) == [t |-> "array", s |-> <<>>, m |-> elems]
Obj(members) == [t |-> "object", s |-> <<>>, m |-> members]

ParseFail == [ok |-> FALSE, v |-> Undefined, next |-> 0]
Parsed(v, next) == [ok |-> TRUE, v |-> v, next |-> next]

\* JSON white space
IsJsonSpace(c) == c \in {" ", NL, CR, TAB}

RECURSIVE SkipJsonSpace(_, _)
SkipJsonSpace(s, i) ==
    IF i > Len(s) \/ ~IsJsonSpace(s[i]) THEN i ELSE SkipJsonSpace(s, i + 1)

\* the character an escape sequence \c stands for
Unescape(c) ==
    CASE c = "n" -> NL
      [] c = "r" -> CR
      [] c = "t" -> TAB
      [] c = "b" -> "^H"
      [] c = "f" -> "^L"
      [] OTHER -> c

\* a string literal whose opening quote is at i - 1; acc is the text read so far
RECURSIVE ParseStringBody(_, _, _)
ParseStringBody(s, i, acc) ==
    IF i > Len(s) THEN ParseFail
    ELSE IF s[i] = Q THEN Parsed(Str(acc), i + 1)
    ELSE IF s[i] = BS
         THEN IF i + 1 <= Len(s) /\ s[i + 1] \in {Q, BS, "/", "b", "f", "n", "r", "t"}
              THEN ParseStringBody(s, i + 2, Append(acc, Unescape(s[i + 1])))
              ELSE ParseFail
    ELSE IF s[i] \in {NL, CR, TAB, SOH} THEN ParseFail
    ELSE ParseStringBody(s, i + 1, Append(acc, s[i]))

\* the first position >= i that holds no digit
RECURSIVE SkipDigits(_, _)
SkipDigits(s, i) ==
    IF i > Len(s) \/ s[i] \notin Digits THEN i ELSE SkipDigits(s, i + 1)

\* -? (0 | [1-9][0-9]*) (. [0-9]+)? ([eE] [+-]? [0-9]+)?
ParseNumber(s, i) ==
    LET a == IF i <= Len(s) /\ s[i] = "-" THEN i + 1 ELSE i
        b == IF a <= Len(s) /\ s[a] = "0" THEN a + 1 ELSE SkipDigits(s, a)
        hasFrac == b <= Len(s) /\ s[b] = "."
        c == IF hasFrac THEN SkipDigits(s, b + 1) ELSE b
        hasExp == c <= Len(s) /\ s[c] \in {"e", "E"}
        d == IF hasExp /\ c + 1 <= Len(s) /\ s[c + 1] \in {"+", "-"} THEN c + 2 ELSE c + 1
        e == IF hasExp THEN SkipDigits(s, d) ELSE c
    IN  IF b = a \/ (hasFrac /\ c = b + 1) \/ (hasExp /\ e = d) THEN ParseFail
        ELSE Parsed(Num(SubSeq(s, i, e - 1)), e)

\* obj[k] = v: a repeated key keeps its place and takes the last value
SetMember(members, k, v) ==
    IF \E n \in 1..Len(members) : members[n].k = k
    THEN [n \in 1..Len(members) |->
             IF members[n].k = k THEN [k |-> k, v |-> v] ELSE members[n]]
    ELSE Append(members, [k |-> k, v |-> v])

RECURSIVE ParseValue(_, _)
RECURSIVE ParseElements(_, _, _)
RECURSIVE ParseMembers(_, _, _)

\* a value, with the white space before it, starting at i
ParseValue(s, i0) ==
    LET i == SkipJsonSpace(s, i0)
    IN  IF i > Len(s) THEN ParseFail
        ELSE CASE s[i] = Q -> ParseStringBody(s, i + 1, <<>>)
               [] s[i] = LBRACE ->
                      LET j == SkipJsonSpace(s, i + 1)
                      IN  IF j <= Len(s) /\ s[j] = RBRACE
                          THEN Parsed(Obj(<<>>), j + 1)
                          ELSE ParseMembers(s, j, <<>>)
               [] s[i] = LBRACK ->
                      LET j == SkipJsonSpace(s, i + 1)
                      IN  IF j <= Len(s) /\ s[j] = RBRACK
                          THEN Parsed(Arr(<<>>), j + 1)
                          ELSE ParseElements(s, j, <<>>)
               [] MatchesAt(s, i, <<"t", "r", "u", "e">>) -> Parsed(Bool(TRUE), i + 4)
               [] MatchesAt(s, i, <<"f", "a", "l", "s", "e">>) -> Parsed(Bool(FALSE), i + 5)
               [] MatchesAt(s, i, <<"n", "u", "l", "l">>) -> Parsed(Null, i + 4)
               [] OTHER -> ParseNumber(s, i)

\* the elements of an array from i on, up to its closing bracket
ParseElements(s, i, acc) ==
    LET e == ParseValue(s, i)
        j == SkipJsonSpace(s, e.next)
    IN  IF ~e.ok \/ j > Len(s) THEN ParseFail
        ELSE IF s[j] = "," THEN ParseElements(s, j + 1, Append(acc, e.v))
        ELSE IF s[j] = RBRACK THEN Parsed(Arr(Append(acc, e.v)), j + 1)
        ELSE ParseFail

\* the members of an object from i on, up to its closing brace
ParseMembers(s, i0, acc) ==
    LET i == SkipJsonSpace(s, i0)
        key == IF i <= Len(s) /\ s[i] = Q THEN ParseStringBody(s, i + 1, <<>>) ELSE ParseFail
        c == SkipJsonSpace(s, key.next)
        val == IF key.ok /\ c <= Len(s) /\ s[c] = ":" THEN ParseValue(s, c + 1) ELSE ParseFail
        j == SkipJsonSpace(s, val.next)
    IN  IF ~val.ok \/ j > Len(s) THEN ParseFail
        ELSE IF s[j] = "," THEN ParseMembers(s, j + 1, SetMember(acc, key.v.s, val.v))
        ELSE IF s[j] = RBRACE THEN Parsed(Obj(SetMember(acc, key.v.s, val.v)), j + 1)
        ELSE ParseFail

\* JSON.parse(text): ok is FALSE where JSON.parse throws a SyntaxError
JsonParse(text) ==
    LET r == ParseValue(text, 1)
    IN  IF r.ok /\ SkipJsonSpace(text, r.next) > Len(text) THEN r ELSE ParseFail

(***************************************************************************)
(* The field names and the literal texts of the controller.                *)
(***************************************************************************)
F_title ==
    <<"t", "i", "t", "l", "e">>

F_difficultyLevel ==
    <<"d", "i", "f", "f", "i", "c", "u", "l", "t", "y", "L", "e", "v", "e", "l">>

F_description ==
    <<"d", "e", "s", "c", "r", "i", "p", "t", "i", "o", "n">>

F_inputFormat ==
    <<"i", "n", "p", "u", "t", "F", "o", "r", "m", "a", "t">>

F_outputFormat ==
    <<"o", "u", "t", "p", "u", "t", "F", "o", "r", "m", "a", "t">>

F_constraints ==
    <<"c", "o", "n", "s", "t", "r", "a", "i", "n", "t", "s">>

F_publicTestCases ==
    <<"p", "u", "b", "l", "i", "c", "T", "e", "s", "t", "C", "a", "s", "e", "s">>

F_privateTestCases ==
    <<"p", "r", "i", "v", "a", "t", "e", "T", "e", "s", "t", "C", "a", "s", "e", "s">>

F_edgeCases ==
    <<"e", "d", "g", "e", "C", "a", "s", "e", "s">>

F_explanation ==
    <<"e", "x", "p", "l", "a", "n", "a", "t", "i", "o", "n">>

F_input ==
    <<"i", "n", "p", "u", "t">>

F_output ==
    <<"o", "u", "t", "p", "u", "t">>

F_prompt ==
    <<"p", "r", "o", "m", "p", "t">>

\* lines 215-226 and 486-497
requiredFields ==
    <<F_title, F_difficultyLevel, F_description, F_inputFormat, F_outputFormat,
      F_constraints, F_publicTestCases, F_privateTestCases, F_edgeCases, F_explanation>>

\* the three array-typed fields (lines 419 and 506-508)
testCaseFields == {F_publicTestCases, F_privateTestCases, F_edgeCases}

\* "name" in double quotes
Quoted(name) == <<Q>> \o name \o <<Q>>

DefaultPrefix ==
    <<"D", "e", "f", "a", "u", "l", "t", " ">>

\* lines 479 and 510
DefaultTestCaseText ==
    <<"{", "\"", "i", "n", "p", "u", "t", "\"", ":", "\"", "D", "e", "f", "a", "u", "l",
      "t", " ", "i", "n", "p", "u", "t", "\"", ",", "\"", "o", "u", "t", "p", "u", "t",
      "\"", ":", "\"", "D", "e", "f", "a", "u", "l", "t", " ", "o", "u", "t", "p", "u",
      "t", "\"", "}">>

(***************************************************************************)
(* repairJsonStructure (CodingChallengeController.js, lines 413-528).      *)
(* Positions are 0-based, as in the source.                                *)
(***************************************************************************)
\* s.substring(a, b)
substring(s, a, b) == SubSeq(s, a + 1, b)

\* s.indexOf(pat, from): a negative start counts as 0; -1 when pat does not occur
indexOf(s, pat, from) == IndexOf(s, pat, (IF from < 0 THEN 0 ELSE from) + 1) - 1

\* /"name"\s*:\s*open/ at 0-based position i: the position after the match, -1 if none
MatchLabel(s, i, name, open) ==
    IF ~MatchesAt(s, i + 1, Quoted(name)) THEN -1
    ELSE LET c == SkipSpace(s, i + 1 + Len(name) + 2)
             o == SkipSpace(s, c + 1)
         IN  IF c <= Len(s) /\ s[c] = ":" /\ o <= Len(s) /\ s[o] = open THEN o ELSE -1

\* testCaseRegex.exec(result) with lastIndex = from (line 421): the first match at or
\* after from, as [found, index, end]
ExecTestCaseRegex(s, from) ==
    LET End(i) == MaxOf({MatchLabel(s, i, name, LBRACK) : name \in testCaseFields})
        starts == {i \in from..(Len(s) - 1) : End(i) # -1}
    IN  IF starts = {} THEN [found |-> FALSE, index |-> 0, end |-> 0]
        ELSE [found |-> TRUE, index |-> MinOf(starts), end |-> End(MinOf(starts))]

\* lines 426-433: the scan for the closing bracket, as [openBrackets, endPos]: the
\* loop stops after the first character that brings openBrackets to 0, or at the end
FindClosingBracket(s, start) ==
    LET Depth(e) == 1 + Cardinality({k \in (start + 1)..e : s[k] = LBRACK})
                      - Cardinality({k \in (start + 1)..e : s[k] = RBRACK})
        closed == {e \in (start + 1)..Len(s) : Depth(e) = 0}
    IN  IF closed = {} THEN [openBrackets |-> Depth(Len(s)), endPos |-> Len(s)]
        ELSE [openBrackets |-> 0, endPos |-> MinOf(closed)]

\* the text between 0-based positions i and j holds no line break ("." matches them)
NoLineBreak(s, i, j) == \A k \in (i + 1)..j : s[k] \notin {NL, CR}

\* the last .*?" of the pattern below: the position after the first quote at or after
\* 0-based i; "." matches no line break.  -1 if none
LazyToQuote(s, i) ==
    LET quotes == {q \in i..(Len(s) - 1) : s[q + 1] = Q /\ NoLineBreak(s, i, q)}
    IN  IF quotes = {} THEN -1 ELSE MinOf(quotes) + 1

\* \s*,\s*"output"\s*:\s*".*?" at 0-based j: the position after the match, -1 if none
MatchOutputPart(s, j) ==
    LET c == SkipSpace(s, j + 1)
        o == SkipSpace(s, c + 1) - 1
        afterOutput == MatchLabel(s, o, F_output, Q)
    IN  IF c <= Len(s) /\ s[c] = "," /\ afterOutput # -1
        THEN LazyToQuote(s, afterOutput)
        ELSE -1

\* the first .*?" of the pattern below, followed by the rest of the pattern: the first
\* quote at or after 0-based i after which MatchOutputPart matches
LazyToOutputPart(s, i) ==
    LET quotes == {q \in i..(Len(s) - 1) :
                      s[q + 1] = Q /\ NoLineBreak(s, i, q) /\ MatchOutputPart(s, q + 1) # -1}
    IN  IF quotes = {} THEN -1 ELSE MatchOutputPart(s, MinOf(quotes) + 1)

\* /"input"\s*:\s*".*?"\s*,\s*"output"\s*:\s*".*?"/ at 0-based i (line 446):
\* the position after the match, -1 if none
MatchCompleteTestCase(s, i) ==
    LET afterInput == MatchLabel(s, i, F_input, Q)
    IN  IF afterInput = -1 THEN -1 ELSE LazyToOutputPart(s, afterInput)

\* (partialContent.match(/.../g) || []).length (lines 444-448): the matches are taken
\* from left to right, each search starting where the previous match ended
RECURSIVE CountCompleteTestCases(_, _)
CountCompleteTestCases(s, from) ==
    LET starts == {i \in from..(Len(s) - 1) : MatchCompleteTestCase(s, i) # -1}
    IN  IF starts = {} THEN 0
        ELSE 1 + CountCompleteTestCases(s, MatchCompleteTestCase(s, MinOf(starts)))

\* lines 451-463: the loop that finds the end of the last complete test case
RECURSIVE LastCompletePos(_, _, _)
LastCompletePos(partialContent, remaining, lastCompletePos) ==
    IF remaining = 0 THEN lastCompletePos
    ELSE LET inputMatch == indexOf(partialContent, Quoted(F_input), lastCompletePos)
             outputMatch == indexOf(partialContent, Quoted(F_output), inputMatch)
             endQuote == indexOf(partialContent, <<Q>>, outputMatch + 10)
         IN  LastCompletePos(partialContent, remaining - 1,
                 IF inputMatch # -1 /\ outputMatch # -1 /\ endQuote # -1
                 THEN endQuote + 1 ELSE lastCompletePos)

\* lines 436-481: the array that starts at match runs to the end of result: cut it after
\* its last complete test case, or give it the default one
CloseTruncatedArray(result, match, lastCompletePos) ==
    IF lastCompletePos > 0
    THEN substring(result, 0, match.end + lastCompletePos) \o <<RBRACK>>
    ELSE substring(result, 0, match.end) \o DefaultTestCaseText \o <<RBRACK>>

\* lines 438-463
LastCompleteIn(partialContent) ==
    LastCompletePos(partialContent, CountCompleteTestCases(partialContent, 0), 0)

\* lines 422-482: the body of the while loop for one match; postContent, the text from
\* endPos on, is empty where the array is not closed
RepairMatch(result, match, scan) ==
    IF scan.openBrackets > 0
    THEN CloseTruncatedArray(result, match,
                             LastCompleteIn(substring(result, match.end, Len(result))))
             \o substring(result, scan.endPos, Len(result))
    ELSE result

\* lines 421-483: the while loop over the matches of testCaseRegex, whose lastIndex
\* carries over to the rewritten result
RECURSIVE RepairTruncatedArrays(_, _)
RECURSIVE RepairFrom(_, _)
RepairFrom(result, match) ==
    IF ~match.found THEN result
    ELSE RepairTruncatedArrays(
             RepairMatch(result, match, FindClosingBracket(result, match.end)), match.end)

RepairTruncatedArrays(result, lastIndex) ==
    RepairFrom(result, ExecTestCaseRegex(result, lastIndex))

\* lines 504-511: the default member text of a field
DefaultValue(field) ==
    IF field \in testCaseFields
    THEN Quoted(field) \o <<":", " ", LBRACK>> \o DefaultTestCaseText \o <<RBRACK>>
    ELSE Quoted(field) \o <<":", " ">> \o Quoted(DefaultPrefix \o field)

\* lines 500-524: the body of the loop over requiredFields, for one field
InjectField(result, field) ==
    LET lastBraceIndex == LastIndexOfChar(result, RBRACE) - 1
        head == Trim(substring(result, 0, lastBraceIndex))
        needsComma == EndsWithChar(head, RBRACE) \/ EndsWithChar(head, RBRACK)
        insertValue == (IF needsComma THEN <<",">> ELSE <<>>) \o DefaultValue(field)
    IN  IF ~Includes(result, Quoted(field)) /\ lastBraceIndex # -1
        THEN substring(result, 0, lastBraceIndex) \o insertValue
                 \o substring(result, lastBraceIndex, Len(result))
        ELSE result

\* lines 499-525
RECURSIVE InjectMissingFields(_, _)
InjectMissingFields(result, n) ==
    IF n > Len(requiredFields) THEN result
    ELSE InjectMissingFields(InjectField(result, requiredFields[n]), n + 1)

repairJsonStructure(jsonString) ==
    InjectMissingFields(RepairTruncatedArrays(repairJsonSyntax(jsonString), 0), 1)

(***************************************************************************)
(* JavaScript values as the validator reads them.                          *)
(***************************************************************************)
\* the mantissa of a number's text is zero
IsZero(chars) ==
    LET exps == {i \in 1..Len(chars) : chars[i] \in {"e", "E"}}
        mantissaEnd == IF exps = {} THEN Len(chars) ELSE MinOf(exps) - 1
    IN  \A i \in 1..mantissaEnd : chars[i] \in {"0", "-", "."}

\* the truth value of v in a condition: !v is ~Truthy(v)
Truthy(v) ==
    CASE v.t = "string" -> v.s # <<>>
      [] v.t = "number" -> ~IsZero(v.s)
      [] v.t \in {"true", "object", "array"} -> TRUE
      [] OTHER -> FALSE

\* obj[key] where obj is not null: a property that is not there is undefined
Get(obj, key) ==
    IF obj.t = "object" /\ \E n \in 1..Len(obj.m) : obj.m[n].k = key
    THEN obj.m[CHOOSE n \in 1..Len(obj.m) : obj.m[n].k = key].v
    ELSE Undefined

\* obj[key] = v
Set(obj, key, v) == Obj(SetMember(obj.m, key, v))

\* Array.isArray(v)
IsArray(v) == v.t = "array"

\* { input: i, output: o }
TestCase(i, o) == Obj(<<[k |-> F_input, v |-> Str(i)], [k |-> F_output, v |-> Str(o)]>>)

\* JSON.stringify of a string: the quoted text, its quotes, backslashes and line
\* breaks escaped
StringifyString(chars) ==
    LET Piece(i) ==
            CASE chars[i] = Q -> <<BS, Q>>
              [] chars[i] = BS -> <<BS, BS>>
              [] chars[i] = NL -> <<BS, "n">>
              [] chars[i] = CR -> <<BS, "r">>
              [] chars[i] = TAB -> <<BS, "t">>
              [] OTHER -> <<chars[i]>>
    IN  <<Q>> \o Concat([i \in 1..Len(chars) |-> Piece(i)], 1, Len(chars)) \o <<Q>>

\* JSON.stringify(v) (line 300).  A number is written as the text it was read from.
RECURSIVE Stringify(_)
Stringify(v) ==
    CASE v.t = "string" -> StringifyString(v.s)
      [] v.t = "number" -> v.s
      [] v.t = "true" -> <<"t", "r", "u", "e">>
      [] v.t = "false" -> <<"f", "a", "l", "s", "e">>
      [] v.t = "array" ->
             LET Piece(i) == (IF i > 1 THEN <<",">> ELSE <<>>) \o Stringify(v.m[i])
             IN  <<LBRACK>> \o Concat([i \in 1..Len(v.m) |-> Piece(i)], 1, Len(v.m))
                     \o <<RBRACK>>
      [] v.t = "object" ->
             LET Piece(i) == (IF i > 1 THEN <<",">> ELSE <<>>)
                                 \o StringifyString(v.m[i].k) \o <<":">> \o Stringify(v.m[i].v)
             IN  <<LBRACE>> \o Concat([i \in 1..Len(v.m) |-> Piece(i)], 1, Len(v.m))
                     \o <<RBRACE>>
      [] OTHER -> <<"n", "u", "l", "l">>

SampleInput ==
    <<"S", "a", "m", "p", "l", "e", " ", "i", "n", "p", "u", "t">>

SampleOutput ==
    <<"S", "a", "m", "p", "l", "e", " ", "o", "u", "t", "p", "u", "t">>

AutoGeneratedPrefix ==
    <<"A", "u", "t", "o", "-", "g", "e", "n", "e", "r", "a", "t", "e", "d", " ", "t",
      "e", "s", "t", " ", "c", "a", "s", "e", " ">>

ExpectedOutput ==
    <<"E", "x", "p", "e", "c", "t", "e", "d", " ", "o", "u", "t", "p", "u", "t">>

EdgeMaxInput ==
    <<"E", "d", "g", "e", " ", "c", "a", "s", "e", " ", "w", "i", "t", "h", " ", "m",
      "a", "x", "i", "m", "u", "m", " ", "v", "a", "l", "u", "e", "s">>

TenToNine ==
    <<"1", "0", "^", "9">>

Billion ==
    <<"1", "0", "0", "0", "0", "0", "0", "0", "0", "0">>

InputSuffix ==
    <<" ", "i", "n", "p", "u", "t">>

OutputSuffix ==
    <<" ", "o", "u", "t", "p", "u", "t">>

T_public ==
    <<"p", "u", "b", "l", "i", "c">>

T_private ==
    <<"p", "r", "i", "v", "a", "t", "e">>

T_edge ==
    <<"e", "d", "g", "e">>

F_wasRepaired ==
    <<"w", "a", "s", "R", "e", "p", "a", "i", "r", "e", "d">>

F_isFallback ==
    <<"i", "s", "F", "a", "l", "l", "b", "a", "c", "k">>

F_validationWarning ==
    <<"v", "a", "l", "i", "d", "a", "t", "i", "o", "n", "W", "a", "r", "n", "i", "n",
      "g">>

F_originalPrompt ==
    <<"o", "r", "i", "g", "i", "n", "a", "l", "P", "r", "o", "m", "p", "t">>

F_warning ==
    <<"w", "a", "r", "n", "i", "n", "g">>

(***************************************************************************)
(* processAndSaveChallenge (CodingChallengeController.js, lines 207-359),  *)
(* up to the call of save().  Each step takes challengeData and returns it *)
(* as the step leaves it.  A message appended to validationWarning is one  *)
(* element of its text.                                                    *)
(***************************************************************************)
\* lines 228-233
missingFields(challengeData) ==
    SelectSeq(requiredFields, LAMBDA field : ~Truthy(Get(challengeData, field)))

\* challengeData.validationWarning = (challengeData.validationWarning || "") + message
Warn(challengeData, message) ==
    Set(challengeData, F_validationWarning,
        Str(Append(Get(challengeData, F_validationWarning).s, message)))

\* lines 243-258
FixPublicTestCases(challengeData) ==
    LET cases == Get(challengeData, F_publicTestCases)
    IN  IF ~IsArray(cases)
        THEN Warn(Set(challengeData, F_publicTestCases,
                      Arr(<<TestCase(SampleInput, SampleOutput)>>)),
                  "Public test cases were incomplete and have been supplemented.")
        ELSE IF Len(cases.m) < 1
        THEN Warn(challengeData,
                  "Public test cases were incomplete and have been supplemented.")
        ELSE challengeData

\* lines 269-276: the while loop that pads privateTestCases to 4 elements
RECURSIVE PadPrivate(_)
PadPrivate(cases) ==
    IF ~(Len(cases) < 4) THEN cases
    ELSE PadPrivate(Append(cases,
             TestCase(Append(AutoGeneratedPrefix, <<"1", "2", "3", "4">>[Len(cases) + 1]),
                      ExpectedOutput)))

\* lines 260-282
FixPrivateTestCases(challengeData) ==
    LET cases == Get(challengeData, F_privateTestCases)
    IN  IF ~IsArray(cases) \/ Len(cases.m) < 4
        THEN Warn(Set(challengeData, F_privateTestCases,
                      Arr(PadPrivate(IF IsArray(cases) THEN cases.m ELSE <<>>))),
                  "Private test cases were incomplete and have been supplemented.")
        ELSE challengeData

\* lines 284-297
FixEdgeCases(challengeData) ==
    LET cases == Get(challengeData, F_edgeCases)
    IN  IF ~IsArray(cases) \/ Len(cases.m) < 1
        THEN Warn(Set(challengeData, F_edgeCases,
                      Arr(<<TestCase(EdgeMaxInput, ExpectedOutput)>>)),
                  "Edge case was missing and has been added.")
        ELSE challengeData

\* lines 300-308
CheckEdgeMaximum(challengeData) ==
    LET edgeCaseStr == Stringify(Get(challengeData, F_edgeCases))
    IN  IF ~Includes(edgeCaseStr, TenToNine) /\ ~Includes(edgeCaseStr, Billion)
        THEN Warn(challengeData,
                  "Edge case might not properly test maximum constraints (10^9).")
        ELSE challengeData

\* lines 311-319: validateTestCase(testCase, type), where testCase is not null.  A
\* property written to a value that is no plain object leaves the value as it is.
SetDefaultSide(testCase, side, text) ==
    LET value == Get(testCase, side)
    IN  IF ~Truthy(value) \/ value.t # "string" THEN Set(testCase, side, Str(text))
        ELSE testCase

validateTestCase(testCase, type) ==
    IF testCase.t = "object"
    THEN SetDefaultSide(SetDefaultSide(testCase, F_input, DefaultPrefix \o type \o InputSuffix),
                        F_output, DefaultPrefix \o type \o OutputSuffix)
    ELSE testCase

\* lines 322-330: array.map(tc => validateTestCase(tc, type)).  Reading testCase.input
\* of null throws; the elements before it have been rewritten in place by then.
MapValidate(array, type) ==
    LET nulls == {n \in 1..Len(array.m) : array.m[n].t \in {"null", "undefined"}}
        stop == IF nulls = {} THEN Len(array.m) + 1 ELSE MinOf(nulls)
    IN  [threw |-> nulls # {},
         array |-> Arr([n \in 1..Len(array.m) |->
                           IF n < stop THEN validateTestCase(array.m[n], type)
                           ELSE array.m[n]])]

\* lines 321-337: the three maps in their try block; the first that throws ends the
\* block and the catch appends its message
RECURSIVE ValidateTestCases(_, _)
ValidateTestCases(challengeData, n) ==
    LET field == <<F_publicTestCases, F_privateTestCases, F_edgeCases>>[n]
        mapped == MapValidate(Get(challengeData, field), <<T_public, T_private, T_edge>>[n])
    IN  IF n > 3 THEN challengeData
        ELSE IF mapped.threw
        THEN Warn(Set(challengeData, field, mapped.array), "Test case validation issues")
        ELSE ValidateTestCases(Set(challengeData, field, mapped.array), n + 1)

\* lines 339-345: { ...challengeData, prompt, createdAt, userId, wasRepaired }; the
\* model leaves out createdAt and userId
ConstructorArgument(challengeData, prompt, wasRepaired) ==
    Set(Set(challengeData, F_prompt, Str(prompt)), F_wasRepaired, Bool(wasRepaired))

\* lines 242-345, for a challengeData that has every required field
ValidatedChallenge(challengeData) ==
    ValidateTestCases(
        CheckEdgeMaximum(
            FixEdgeCases(FixPrivateTestCases(FixPublicTestCases(challengeData)))), 1)

\* what the call does: it throws (challengeData is null), it answers 400, or it builds
\* the document's data and calls save()
processAndSaveChallenge(challengeData, prompt, wasRepaired) ==
    IF challengeData.t \in {"null", "undefined"}
    THEN [outcome |-> "throws", status |-> 0, missingFields |-> <<>>, data |-> Undefined]
    ELSE IF Len(missingFields(challengeData)) > 0
    THEN [outcome |-> "responds", status |-> 400,
          missingFields |-> missingFields(challengeData), data |-> Undefined]
    ELSE [outcome |-> "saves", status |-> 0, missingFields |-> <<>>,
          data |-> ConstructorArgument(ValidatedChallenge(challengeData), prompt,
                                       wasRepaired)]

(***************************************************************************)
(* createFallbackChallenge (CodingChallengeController.js, lines 531-579).  *)
(***************************************************************************)
CodingChallengePrefix ==
    <<"C", "o", "d", "i", "n", "g", " ", "C", "h", "a", "l", "l", "e", "n", "g", "e",
      ":", " ">>

InputFormatNotParsed ==
    <<"I", "n", "p", "u", "t", " ", "f", "o", "r", "m", "a", "t", " ", "c", "o", "u",
      "l", "d", " ", "n", "o", "t", " ", "b", "e", " ", "p", "a", "r", "s", "e", "d",
      " ", "f", "r", "o", "m", " ", "A", "I", " ", "r", "e", "s", "p", "o", "n", "s",
      "e">>

OutputFormatNotParsed ==
    <<"O", "u", "t", "p", "u", "t", " ", "f", "o", "r", "m", "a", "t", " ", "c", "o",
      "u", "l", "d", " ", "n", "o", "t", " ", "b", "e", " ", "p", "a", "r", "s", "e",
      "d", " ", "f", "r", "o", "m", " ", "A", "I", " ", "r", "e", "s", "p", "o", "n",
      "s", "e">>

DefaultConstraints ==
    <<"D", "e", "f", "a", "u", "l", "t", " ", "c", "o", "n", "s", "t", "r", "a", "i",
      "n", "t", "s">>

TestCasePrefix ==
    <<"T", "e", "s", "t", " ", "c", "a", "s", "e", " ">>

OutputPrefix ==
    <<"O", "u", "t", "p", "u", "t", " ">>

ExpectedEdgeOutput ==
    <<"E", "x", "p", "e", "c", "t", "e", "d", " ", "o", "u", "t", "p", "u", "t", " ",
      "f", "o", "r", " ", "e", "d", "g", "e", " ", "c", "a", "s", "e">>

FallbackExplanation ==
    <<"T", "h", "i", "s", " ", "c", "h", "a", "l", "l", "e", "n", "g", "e", " ", "w",
      "a", "s", " ", "c", "r", "e", "a", "t", "e", "d", " ", "i", "n", " ", "f", "a",
      "l", "l", "b", "a", "c", "k", " ", "m", "o", "d", "e", " ", "d", "u", "e", " ",
      "t", "o", " ", "p", "a", "r", "s", "i", "n", "g", " ", "e", "r", "r", "o", "r",
      "s", ".", " ", "P", "l", "e", "a", "s", "e", " ", "r", "e", "v", "i", "e", "w",
      " ", "a", "n", "d", " ", "e", "d", "i", "t", " ", "t", "h", "e", " ", "c", "h",
      "a", "l", "l", "e", "n", "g", "e", " ", "d", "e", "t", "a", "i", "l", "s", " ",
      "a", "s", " ", "n", "e", "e", "d", "e", "d", ".">>

FallbackWarning ==
    <<"C", "h", "a", "l", "l", "e", "n", "g", "e", " ", "w", "a", "s", " ", "c", "r",
      "e", "a", "t", "e", "d", " ", "u", "s", "i", "n", "g", " ", "f", "a", "l", "l",
      "b", "a", "c", "k", " ", "m", "o", "d", "e", " ", "d", "u", "e", " ", "t", "o",
      " ", "p", "a", "r", "s", "i", "n", "g", " ", "e", "r", "r", "o", "r", "s", ".">>

UpperSeq ==
    <<"A", "B", "C", "D", "E", "F", "G", "H", "I", "J", "K", "L", "M",
      "N", "O", "P", "Q", "R", "S", "T", "U", "V", "W", "X", "Y", "Z">>

LowerSeq ==
    <<"a", "b", "c", "d", "e", "f", "g", "h", "i", "j", "k", "l", "m",
      "n", "o", "p", "q", "r", "s", "t", "u", "v", "w", "x", "y", "z">>

\* the lower-case form of a character: the "i" flag compares letters by it
ToLower(c) ==
    IF c \in UpperLetters THEN LowerSeq[CHOOSE n \in 1..26 : UpperSeq[n] = c] ELSE c

\* /"fieldName"\s*:\s*"([^"]*)"/i at 0-based i, as [found, value]
MatchField(s, i, fieldName) ==
    LET quoted == Quoted(fieldName)
        labelHere == /\ i + Len(quoted) <= Len(s)
                     /\ \A k \in 1..Len(quoted) : ToLower(s[i + k]) = ToLower(quoted[k])
        c == SkipSpace(s, i + Len(quoted) + 1)
        o == SkipSpace(s, c + 1)
        closing == {q \in (o + 1)..Len(s) : s[q] = Q}
    IN  IF labelHere /\ c <= Len(s) /\ s[c] = ":" /\ o <= Len(s) /\ s[o] = Q /\ closing # {}
        THEN [found |-> TRUE, value |-> SubSeq(s, o + 1, MinOf(closing) - 1)]
        ELSE [found |-> FALSE, value |-> <<>>]

\* lines 533-537: extractField(fieldName), the first match in aiResponse or the default
extractField(aiResponse, fieldName) ==
    LET starts == {i \in 0..(Len(aiResponse) - 1) : MatchField(aiResponse, i, fieldName).found}
    IN  IF starts = {} THEN DefaultPrefix \o fieldName
        ELSE MatchField(aiResponse, MinOf(starts), fieldName).value

\* prompt.split(" ").slice(0, 5).join(" "): the prompt up to its fifth space
FirstFiveWords(prompt) ==
    LET spaces == {i \in 1..Len(prompt) : prompt[i] = " "}
        fifth == {i \in spaces : Cardinality({j \in spaces : j < i}) = 4}
    IN  IF fifth = {} THEN prompt ELSE SubSeq(prompt, 1, MinOf(fifth) - 1)

createFallbackChallenge(aiResponse, prompt) ==
    LET extracted == extractField(aiResponse, F_title)
        title == IF extracted = DefaultPrefix \o F_title
                 THEN CodingChallengePrefix \o FirstFiveWords(prompt)
                 ELSE extracted
        Numbered(n) == TestCase(Append(TestCasePrefix, n), Append(OutputPrefix, n))
    IN  Obj(<<[k |-> F_title, v |-> Str(title)],
              [k |-> F_difficultyLevel, v |-> Str(extractField(aiResponse, F_difficultyLevel))],
              [k |-> F_description, v |-> Str(extractField(aiResponse, F_description))],
              [k |-> F_inputFormat, v |-> Str(InputFormatNotParsed)],
              [k |-> F_outputFormat, v |-> Str(OutputFormatNotParsed)],
              [k |-> F_constraints, v |-> Str(DefaultConstraints)],
              [k |-> F_publicTestCases, v |-> Arr(<<TestCase(SampleInput, SampleOutput)>>)],
              [k |-> F_privateTestCases,
               v |-> Arr(<<Numbered("1"), Numbered("2"), Numbered("3"), Numbered("4")>>)],
              [k |-> F_edgeCases, v |-> Arr(<<TestCase(EdgeMaxInput, ExpectedEdgeOutput)>>)],
              [k |-> F_explanation, v |-> Str(FallbackExplanation)],
              [k |-> F_wasRepaired, v |-> Bool(TRUE)],
              [k |-> F_isFallback, v |-> Bool(TRUE)],
              [k |-> F_originalPrompt, v |-> Str(prompt)]>>)

(***************************************************************************)
(* codingChallengeSchema (CodingChallengeSchema.js, lines 3-62): the paths *)
(* a document keeps, and what save() validates.                            *)
(***************************************************************************)
\* lines 5-56: the paths of the schema; the model keeps no other property
SchemaPaths ==
    {F_title, F_difficultyLevel, F_description, F_inputFormat, F_outputFormat,
     F_constraints, F_publicTestCases, F_privateTestCases, F_edgeCases, F_explanation,
     F_prompt}

\* the paths declared { type: String, required: true }
RequiredPaths == SchemaPaths \ testCaseFields

\* line 13: enum: ["Easy", "Medium", "Hard"]
DifficultyEnum ==
    {<<"E", "a", "s", "y">>, <<"M", "e", "d", "i", "u", "m">>, <<"H", "a", "r", "d">>}

\* new CodingChallenge(obj): the document holds the schema's paths of obj only
NewCodingChallenge(obj) == Obj(SelectSeq(obj.m, LAMBDA member : member.k \in SchemaPaths))

\* the validation of save(): every required path holds a non-empty string (a number or
\* a boolean is cast to one), title after trim (line 8), and difficultyLevel is in the enum
SchemaAccepts(doc) ==
    /\ \A path \in RequiredPaths :
           LET v == Get(doc, path)
           IN  \/ v.t \in {"number", "true", "false"}
               \/ v.t = "string" /\ (IF path = F_title THEN Trim(v.s) ELSE v.s) # <<>>
    /\ Get(doc, F_difficultyLevel).t = "string"
    /\ Get(doc, F_difficultyLevel).s \in DifficultyEnum

(***************************************************************************)
(* generateChallenge (CodingChallengeController.js, lines 9-204).          *)
(***************************************************************************)
Fence == <<BACKTICK, BACKTICK, BACKTICK>>
FenceJson == Fence \o <<"j", "s", "o", "n">>

\* line 111: aiResponse.replace(/FenceJson|Fence/g, "")
RECURSIVE RemoveFences(_)
RemoveFences(s) ==
    LET p == IndexOf(s, Fence, 1)
    IN  IF p = 0 THEN s
        ELSE SubSeq(s, 1, p - 1)
                 \o RemoveFences(From(s, p + (IF MatchesAt(s, p, FenceJson) THEN 7 ELSE 3)))

\* lines 111-122: the text between the first opening and the last closing brace
Cleanup(raw) ==
    LET a1 == Trim(RemoveFences(raw))
        firstBraceIndex == indexOf(a1, <<LBRACE>>, 0)
        a2 == IF firstBraceIndex > 0 THEN substring(a1, firstBraceIndex, Len(a1)) ELSE a1
        lastBraceIndex == LastIndexOfChar(a2, RBRACE) - 1
    IN  IF lastBraceIndex # -1 /\ lastBraceIndex < Len(a2) - 1
        THEN substring(a2, 0, lastBraceIndex + 1) ELSE a2

(***************************************************************************)
(* preprocessMarkdown (MCQChallengeController.js, lines 9-84).  Each       *)
(* replace is the walk over its matches from left to right, each search    *)
(* starting where the previous match ended.                                *)
(***************************************************************************)
PIPE == "|"

\* whether pat occurs in s at position i, letters compared without case (the "i" flag)
MatchesAtNoCase(s, i, pat) ==
    /\ i >= 1
    /\ i + Len(pat) - 1 <= Len(s)
    /\ \A k \in 1..Len(pat) : ToLower(s[i + k - 1]) = ToLower(pat[k])

\* the first position >= from where pat occurs, 0 if none
FirstAt(s, pat, from) == IndexOf(s, pat, from)

\* lines 14 and 42: s.replace(/\|\s*([^|]*)\s*\|/g, "| $1 |").  The pipes are matched
\* in pairs from the left; of the text between a pair, the white space at its start is
\* taken by the first \s* and the rest is $1.
NormalizeCells(s) ==
    LET pipes == {i \in 1..Len(s) : s[i] = PIPE}
        Before(i) == {q \in pipes : q < i}
        Later(i) == \E q \in pipes : q > i
        Piece(i) ==
            IF s[i] = PIPE
            THEN IF Cardinality(Before(i)) % 2 = 1 THEN <<" ", PIPE>>
                 ELSE IF Later(i) THEN <<PIPE, " ">>
                 ELSE <<PIPE>>
            ELSE IF /\ Cardinality(Before(i)) % 2 = 1
                    /\ Later(i)
                    /\ \A k \in (MaxOf(Before(i)) + 1)..i : IsSpace(s[k])
                 THEN <<>>
                 ELSE <<s[i]>>
    IN  Concat([i \in 1..Len(s) |-> Piece(i)], 1, Len(s))

\* /\|\s*[\w\s]+\s*\|/ at i: the position of the closing pipe, 0 if none
RowEnd(s, i) ==
    LET later == {q \in (i + 1)..Len(s) : s[q] = PIPE}
    IN  IF i <= Len(s) /\ s[i] = PIPE /\ later # {} /\ MinOf(later) > i + 1
           /\ \A k \in (i + 1)..(MinOf(later) - 1) : IsWord(s[k]) \/ IsSpace(s[k])
        THEN MinOf(later) ELSE 0

\* lines 25-28 and 56-59: the separator row of a table with the given number of columns
RECURSIVE SeparatorRow(_)
SeparatorRow(columns) ==
    IF columns <= 0 THEN <<PIPE>>
    ELSE SeparatorRow(columns - 1)
             \o <<"-", "-", "-", "-", "-", "-", "-", "-", "-", PIPE>>

NoMatch == [found |-> FALSE, start |-> 0, end |-> 0, by |-> <<>>]

\* lines 17-33: /(\|\s*[\w\s]+\s*\|)(\s*\n\s*\|)/ at i and the callback's result
HeaderMatchAt(s, i) ==
    LET j == RowEnd(s, i)
        k == SkipSpace(s, j + 1)
        header == SubSeq(s, i, j)
        nextLine == SubSeq(s, j + 1, k)
        columnCount == CountChar(header, PIPE) - 1
    IN  IF j # 0 /\ k <= Len(s) /\ s[k] = PIPE /\ \E n \in (j + 1)..(k - 1) : s[n] = NL
        THEN [found |-> TRUE, start |-> i, end |-> k,
              by |-> IF ~Includes(nextLine, <<"-">>)
                     THEN header \o <<NL>> \o SeparatorRow(columnCount) \o nextLine
                     ELSE header \o nextLine]
        ELSE NoMatch

\* (?!\|[-|]*\|) at p: TRUE when a pipe, dashes and pipes, and a pipe follow
SeparatorAhead(s, p) ==
    /\ p <= Len(s)
    /\ s[p] = PIPE
    /\ \E q \in (p + 1)..Len(s) :
           s[q] = PIPE /\ \A r \in (p + 1)..(q - 1) : s[r] \in {"-", PIPE}

\* lines 49-63: /(\|\s*[\w\s]+\s*\|\s*\n)(?!\|[-|]*\|)/ at i and the callback's result:
\* the greedy \s* gives the last line break of the white space that no separator follows
TableLineMatchAt(s, i) ==
    LET j == RowEnd(s, i)
        breaks == {e \in (j + 1)..(SkipSpace(s, j + 1) - 1) :
                      s[e] = NL /\ ~SeparatorAhead(s, e + 1)}
        tableLine == SubSeq(s, i, MaxOf(breaks))
    IN  IF j # 0 /\ breaks # {}
        THEN [found |-> TRUE, start |-> i, end |-> MaxOf(breaks),
              by |-> tableLine \o SeparatorRow(CountChar(tableLine, PIPE) - 1) \o <<NL>>]
        ELSE NoMatch

SqlTag == Fence \o <<"s", "q", "l">>

\* line 37: (CREATE TABLE|SELECT|INSERT|UPDATE|DELETE)
SqlStatements ==
    {<<"C", "R", "E", "A", "T", "E", " ", "T", "A", "B", "L", "E">>,
     <<"S", "E", "L", "E", "C", "T">>, <<"I", "N", "S", "E", "R", "T">>,
     <<"U", "P", "D", "A", "T", "E">>, <<"D", "E", "L", "E", "T", "E">>}

\* lines 36-46: /FenceSql\s*([\s\S]*?)(CREATE TABLE|...)[\s\S]*?Fence/gi at i: the first
\* statement word after the tag that a fence follows, and the first fence after it
SqlBlockMatchAt(s, i) ==
    LET FenceAfter(p) ==
            MinOf({FirstAt(s, Fence, p + Len(w)) :
                      w \in {v \in SqlStatements :
                                 /\ MatchesAtNoCase(s, p, v)
                                 /\ FirstAt(s, Fence, p + Len(v)) # 0}})
        words == {p \in (i + 6)..Len(s) :
                     \E w \in SqlStatements :
                         MatchesAtNoCase(s, p, w) /\ FirstAt(s, Fence, p + Len(w)) # 0}
        f == FenceAfter(MinOf(words))
        match == SubSeq(s, i, f + 2)
    IN  IF MatchesAtNoCase(s, i, SqlTag) /\ words # {}
        THEN [found |-> TRUE, start |-> i, end |-> f + 2,
              by |-> IF Includes(match, <<PIPE>>) THEN NormalizeCells(match) ELSE match]
        ELSE NoMatch

\* line 66: /Fence(\s*)\n/ at i, replaced by the fence and one line break
FenceSpaceMatchAt(s, i) ==
    LET breaks == {e \in (i + 3)..(SkipSpace(s, i + 3) - 1) : s[e] = NL}
    IN  IF MatchesAt(s, i, Fence) /\ breaks # {}
        THEN [found |-> TRUE, start |-> i, end |-> MaxOf(breaks), by |-> Fence \o <<NL>>]
        ELSE NoMatch

\* lines 69-72: /(Fence[\w+][\s\S]+?)(Fence)([^\n])/ at i, replaced by "$1$2\n\n$3"
OpenBlockMatchAt(s, i) ==
    LET closing == {f \in (i + 5)..(Len(s) - 3) : MatchesAt(s, f, Fence) /\ s[f + 3] # NL}
        f == MinOf(closing)
    IN  IF /\ MatchesAt(s, i, Fence)
           /\ i + 3 <= Len(s)
           /\ (IsWord(s[i + 3]) \/ s[i + 3] = "+")
           /\ closing # {}
        THEN [found |-> TRUE, start |-> i, end |-> f + 3,
              by |-> SubSeq(s, i, f + 2) \o <<NL, NL, s[f + 3]>>]
        ELSE NoMatch

\* line 77: the keywords made of one word
SqlKeywords ==
    {<<"s", "e", "l", "e", "c", "t">>, <<"f", "r", "o", "m">>, <<"w", "h", "e", "r", "e">>,
     <<"j", "o", "i", "n">>, <<"i", "n", "n", "e", "r">>, <<"o", "u", "t", "e", "r">>,
     <<"l", "e", "f", "t">>, <<"r", "i", "g", "h", "t">>, <<"o", "n">>, <<"a", "n", "d">>,
     <<"o", "r">>, <<"h", "a", "v", "i", "n", "g">>, <<"l", "i", "m", "i", "t">>,
     <<"i", "n", "s", "e", "r", "t">>, <<"u", "p", "d", "a", "t", "e">>,
     <<"d", "e", "l", "e", "t", "e">>, <<"c", "r", "e", "a", "t", "e">>,
     <<"a", "l", "t", "e", "r">>, <<"d", "r", "o", "p">>, <<"t", "a", "b", "l", "e">>,
     <<"v", "i", "e", "w">>, <<"i", "n", "d", "e", "x">>, <<"i", "n", "t", "o">>,
     <<"v", "a", "l", "u", "e", "s">>, <<"s", "e", "t">>}

\* line 77: "group by" and "order by", whose first word is no keyword of its own
SqlPhraseHeads == {<<"g", "r", "o", "u", "p">>, <<"o", "r", "d", "e", "r">>}

ToUpper(c) ==
    IF c \in LowerLetters THEN UpperSeq[CHOOSE n \in 1..26 : LowerSeq[n] = c] ELSE c

LowerText(t) == [k \in 1..Len(t) |-> ToLower(t[k])]

\* lines 76-79: the keywords of p1 in upper case.  \b...\b makes a match a whole word,
\* or the two words of a phrase with one space between them.
UppercaseKeywords(p1) ==
    LET WordStart(i) == MinOf({a \in 1..i : \A k \in a..i : IsWord(p1[k])})
        LastOf(i) == MaxOf({b \in i..Len(p1) : \A k \in i..b : IsWord(p1[k])})
        Word(a) == LowerText(SubSeq(p1, a, LastOf(a)))
        IsBy(a) == Word(a) = <<"b", "y">>
        HeadOfPhrase(a) ==
            /\ Word(a) \in SqlPhraseHeads
            /\ LastOf(a) + 2 <= Len(p1)
            /\ p1[LastOf(a) + 1] = " "
            /\ IsWord(p1[LastOf(a) + 2])
            /\ IsBy(LastOf(a) + 2)
        TailOfPhrase(a) ==
            /\ IsBy(a)
            /\ a >= 3
            /\ p1[a - 1] = " "
            /\ IsWord(p1[a - 2])
            /\ Word(WordStart(a - 2)) \in SqlPhraseHeads
        InKeyword(i) ==
            /\ IsWord(p1[i])
            /\ \/ Word(WordStart(i)) \in SqlKeywords
               \/ HeadOfPhrase(WordStart(i))
               \/ TailOfPhrase(WordStart(i))
    IN  [i \in 1..Len(p1) |-> IF InKeyword(i) THEN ToUpper(p1[i]) ELSE p1[i]]

\* lines 75-81: /FenceSql([\s\S]*?)Fence/gi at i and the callback's result
SqlFenceMatchAt(s, i) ==
    LET f == FirstAt(s, Fence, i + 6)
    IN  IF MatchesAtNoCase(s, i, SqlTag) /\ f # 0
        THEN [found |-> TRUE, start |-> i, end |-> f + 2,
              by |-> SqlTag \o <<NL>> \o Trim(UppercaseKeywords(SubSeq(s, i + 6, f - 1)))
                         \o <<NL>> \o Fence]
        ELSE NoMatch

\* the match of the rule at position i
MatchAt(rule, s, i) ==
    CASE rule = "header" -> HeaderMatchAt(s, i)
      [] rule = "sqlBlock" -> SqlBlockMatchAt(s, i)
      [] rule = "tableLine" -> TableLineMatchAt(s, i)
      [] rule = "fenceSpace" -> FenceSpaceMatchAt(s, i)
      [] rule = "openBlock" -> OpenBlockMatchAt(s, i)
      [] rule = "sqlFence" -> SqlFenceMatchAt(s, i)

\* s.replace(rule, callback) from position from on: the text up to the first match, the
\* callback's result, and the same for the text after the match
RECURSIVE ReplaceFrom(_, _, _)
RECURSIVE ReplaceMatch(_, _, _, _)
ReplaceMatch(rule, s, from, match) ==
    SubSeq(s, from, match.start - 1) \o match.by \o ReplaceFrom(rule, s, match.end + 1)

ReplaceFrom(rule, s, from) ==
    LET starts == {i \in from..Len(s) : MatchAt(rule, s, i).found}
    IN  IF starts = {} THEN From(s, from)
        ELSE ReplaceMatch(rule, s, from, MatchAt(rule, s, MinOf(starts)))

ReplaceAll(rule, s) == ReplaceFrom(rule, s, 1)

preprocessMarkdown(markdown) ==
    IF markdown = <<>> THEN <<>>
    ELSE ReplaceAll("sqlFence",
             ReplaceAll("openBlock",
                 ReplaceAll("fenceSpace",
                     ReplaceAll("tableLine",
                         ReplaceAll("sqlBlock",
                             ReplaceAll("header", NormalizeCells(markdown)))))))

(***************************************************************************)
(* The requests of the model: the prompts of the caller and the raw texts  *)
(* the generation service returns.                                         *)
(***************************************************************************)
PromptTwoSum ==
    <<"t", "w", "o", " ", "s", "u", "m">>

PromptSort ==
    <<"s", "o", "r", "t", " ", "a", " ", "l", "i", "s", "t", " ", "o", "f", " ", "n",
      "u", "m", "b", "e", "r", "s", " ", "i", "n", " ", "p", "l", "a", "c", "e">>

PromptGraph ==
    <<"s", "h", "o", "r", "t", "e", "s", "t", " ", "p", "a", "t", "h">>

\* <<>> is a request without a prompt
Prompts == {<<>>, PromptTwoSum, PromptSort, PromptGraph}

\* the six scalar members before the arrays, with difficultyLevel Easy
ScalarsEasy ==
    <<"\"", "t", "i", "t", "l", "e", "\"", ":", "\"", "t", "\"", ",", "\"", "d", "i",
      "f", "f", "i", "c", "u", "l", "t", "y", "L", "e", "v", "e", "l", "\"", ":", "\"",
      "E", "a", "s", "y", "\"", ",", "\"", "d", "e", "s", "c", "r", "i", "p", "t", "i",
      "o", "n", "\"", ":", "\"", "d", "\"", ",", "\"", "i", "n", "p", "u", "t", "F", "o",
      "r", "m", "a", "t", "\"", ":", "\"", "i", "\"", ",", "\"", "o", "u", "t", "p", "u",
      "t", "F", "o", "r", "m", "a", "t", "\"", ":", "\"", "o", "\"", ",", "\"", "c", "o",
      "n", "s", "t", "r", "a", "i", "n", "t", "s", "\"", ":", "\"", "c", "\"">>

\* the same with a difficultyLevel outside the enum
ScalarsExtreme ==
    <<"\"", "t", "i", "t", "l", "e", "\"", ":", "\"", "t", "\"", ",", "\"", "d", "i",
      "f", "f", "i", "c", "u", "l", "t", "y", "L", "e", "v", "e", "l", "\"", ":", "\"",
      "E", "x", "t", "r", "e", "m", "e", "\"", ",", "\"", "d", "e", "s", "c", "r", "i",
      "p", "t", "i", "o", "n", "\"", ":", "\"", "d", "\"", ",", "\"", "i", "n", "p", "u",
      "t", "F", "o", "r", "m", "a", "t", "\"", ":", "\"", "i", "\"", ",", "\"", "o", "u",
      "t", "p", "u", "t", "F", "o", "r", "m", "a", "t", "\"", ":", "\"", "o", "\"", ",",
      "\"", "c", "o", "n", "s", "t", "r", "a", "i", "n", "t", "s", "\"", ":", "\"", "c",
      "\"">>

CaseText ==
    <<"{", "\"", "i", "n", "p", "u", "t", "\"", ":", "\"", "1", "\"", ",", "\"", "o",
      "u", "t", "p", "u", "t", "\"", ":", "\"", "2", "\"", "}">>

EdgeCaseText ==
    <<"{", "\"", "i", "n", "p", "u", "t", "\"", ":", "\"", "1", "0", "^", "9", "\"", ",",
      "\"", "o", "u", "t", "p", "u", "t", "\"", ":", "\"", "1", "\"", "}">>

ExplanationMember ==
    <<"\"", "e", "x", "p", "l", "a", "n", "a", "t", "i", "o", "n", "\"", ":", "\"", "e",
      "\"">>

\* n test cases, each followed by sep except the last
RECURSIVE CasesText(_, _)
CasesText(n, sep) ==
    IF n = 0 THEN <<>>
    ELSE IF n = 1 THEN CaseText
    ELSE CaseText \o sep \o CasesText(n - 1, sep)

\* "name":[elements]
ArrayMember(name, elements) == Quoted(name) \o <<":", LBRACK>> \o elements \o <<RBRACK>>

\* a challenge object with the given scalar members, arrays and tail
ChallengeText(scalars, public, private, tail) ==
    <<LBRACE>> \o scalars \o <<",">> \o ArrayMember(F_publicTestCases, public) \o <<",">>
        \o ArrayMember(F_privateTestCases, private) \o <<",">>
        \o ArrayMember(F_edgeCases, EdgeCaseText) \o tail \o <<RBRACE>>

\* a well-formed answer: 2 public, 4 private, 1 edge case
R_clean ==
    ChallengeText(ScalarsEasy, CasesText(2, <<",">>), CasesText(4, <<",">>),
                  <<",">> \o ExplanationMember)

\* the same inside a fenced block, after a word of prose
R_fenced == <<"O", "K", NL>> \o FenceJson \o <<NL>> \o R_clean \o <<NL>> \o Fence

\* the two public test cases adjacent without a comma
R_adjacent ==
    ChallengeText(ScalarsEasy, CasesText(2, <<>>), CasesText(4, <<",">>),
                  <<",">> \o ExplanationMember)

\* no explanation, and a comma before the closing brace
R_trailingComma ==
    ChallengeText(ScalarsEasy, CasesText(2, <<",">>), CasesText(4, <<",">>), <<",">>)

\* 1 public and 5 private test cases
R_fivePrivate ==
    ChallengeText(ScalarsEasy, CasesText(1, <<",">>), CasesText(5, <<",">>),
                  <<",">> \o ExplanationMember)

\* a difficultyLevel that is not in the schema's enum
R_badDifficulty ==
    ChallengeText(ScalarsExtreme, CasesText(2, <<",">>), CasesText(4, <<",">>),
                  <<",">> \o ExplanationMember)

\* a null among the public test cases
R_nullCase ==
    ChallengeText(ScalarsEasy, CaseText \o <<",", "n", "u", "l", "l">>, CasesText(4, <<",">>),
                  <<",">> \o ExplanationMember)

\* an array cut after one complete element
R_truncated ==
    <<"{", "\"", "t", "i", "t", "l", "e", "\"", ":", "\"", "t", "\"", ",", "\"", "p",
      "u", "b", "l", "i", "c", "T", "e", "s", "t", "C", "a", "s", "e", "s", "\"", ":",
      "[", "{", "\"", "i", "n", "p", "u", "t", "\"", ":", "\"", "a", "\"", ",", "\"",
      "o", "u", "t", "p", "u", "t", "\"", ":", "\"", "b", "\"", "}", ",", "{", "\"", "i",
      "n", "p">>

R_emptyObject ==
    <<"{", "}">>

R_null ==
    <<"n", "u", "l", "l">>

R_noise ==
    <<"s", "o", "r", "r", "y", ",", " ", "n", "o">>

\* a text cut inside a string literal, after a difficultyLevel of the enum
R_cutInString ==
    <<"{", "\"", "t", "i", "t", "l", "e", "\"", ":", "\"", "t", "\"", ",", "\"", "d",
      "i", "f", "f", "i", "c", "u", "l", "t", "y", "L", "e", "v", "e", "l", "\"", ":",
      "\"", "E", "a", "s", "y", "\"", ",", "\"", "d", "e", "s", "c", "r", "i", "p", "t",
      "i", "o", "n", "\"", ":", "\"", "d">>

R_empty == <<>>

RawTexts ==
    {R_clean, R_fenced, R_adjacent, R_trailingComma, R_fivePrivate, R_badDifficulty,
     R_nullCase, R_truncated, R_cutInString, R_emptyObject, R_null, R_noise, R_empty}

(***************************************************************************)
(* The state of one request, and of one application of a pure function.    *)
(***************************************************************************)
VARIABLES
    pc,          \* where the request is: start, awaitGeneration, direct, syntax,
                 \* structural, fallback, awaitSave, awaitFallbackSave, done
    prompt,      \* req.body.prompt
    rawText,     \* response.choices[0].message.content
    aiResponse,  \* the variable aiResponse after lines 111-122
    candidate,   \* challengeData: the value the last parse returned
    trace,       \* the stages entered so far, each with what its parse and the validator did
    pending,     \* the document whose save() has not settled
    responses,   \* the responses written to res, in order
    store,       \* the documents the store holds
    fx,          \* the argument the function is applied to
    fOnce,       \* the function applied to fx
    fTwice,      \* the function applied to fOnce
    fPc          \* input, once, twice

requestVars == <<pc, prompt, rawText, aiResponse, candidate, trace, pending, responses, store>>
functionVars == <<fx, fOnce, fTwice, fPc>>
vars == <<pc, prompt, rawText, aiResponse, candidate, trace, pending, responses, store,
          fx, fOnce, fTwice, fPc>>

NoDocument == Undefined

RequestIdle ==
    /\ pc = "idle"
    /\ prompt = <<>>
    /\ rawText = <<>>
    /\ aiResponse = <<>>
    /\ candidate = Undefined
    /\ trace = <<>>
    /\ pending = NoDocument
    /\ responses = <<>>
    /\ store = <<>>

FunctionIdle ==
    /\ fx = <<>>
    /\ fOnce = <<>>
    /\ fTwice = <<>>
    /\ fPc = "idle"

\* res.status(status).json(...): the document (201), or a message with the missing
\* fields (400) or with the message of the error that was caught (500)
Response(status, message, body, missing, error) ==
    [status |-> status, message |-> message, body |-> body, missingFields |-> missing,
     error |-> error]

Init ==
    /\ pc = "start"
    /\ prompt \in Prompts
    /\ rawText = <<>>
    /\ aiResponse = <<>>
    /\ candidate = Undefined
    /\ trace = <<>>
    /\ pending = NoDocument
    /\ responses = <<>>
    /\ store = <<>>
    /\ FunctionIdle

\* lines 13-15: no prompt, 400
RejectMissingPrompt ==
    /\ pc = "start"
    /\ prompt = <<>>
    /\ responses' = Append(responses, Response(400, "Prompt is required", Undefined, <<>>, ""))
    /\ pc' = "done"
    /\ UNCHANGED <<prompt, rawText, aiResponse, candidate, trace, pending, store, functionVars>>

\* line 89: the call of the generation service, awaited
CallGeneration ==
    /\ pc = "start"
    /\ prompt # <<>>
    /\ pc' = "awaitGeneration"
    /\ UNCHANGED <<prompt, rawText, aiResponse, candidate, trace, pending, responses, store,
                   functionVars>>

\* lines 197-203: the call rejects; the outer catch answers 500
GenerationFails ==
    /\ pc = "awaitGeneration"
    /\ responses' = Append(responses,
                           Response(500, "Error generating challenge", Undefined, <<>>,
                                    "generation"))
    /\ pc' = "done"
    /\ UNCHANGED <<prompt, rawText, aiResponse, candidate, trace, pending, store, functionVars>>

\* lines 105-122: the call returns a text, which is cleaned
GenerationReturns ==
    /\ pc = "awaitGeneration"
    /\ \E raw \in RawTexts :
           /\ rawText' = raw
           /\ aiResponse' = Cleanup(raw)
    /\ pc' = "direct"
    /\ UNCHANGED <<prompt, candidate, trace, pending, responses, store, functionVars>>

\* StageOutcome as it would be if the validator's 400 did not end the stage: the
\* answer is written and the request goes on to the next stage
StageOutcomeGoesOn(stage, parsed, call, next) ==
    /\ candidate' = parsed.v
    /\ trace' = Append(trace, [stage |-> stage, parsed |-> parsed.ok,
                               validator |-> call.outcome])
    /\ IF call.outcome \in {"none", "throws"}
       THEN /\ pc' = next
            /\ UNCHANGED <<pending, responses>>
       ELSE IF call.outcome = "responds"
       THEN /\ pc' = next
            /\ responses' = Append(responses,
                   Response(call.status, "Challenge data is incomplete", Undefined,
                            call.missingFields, ""))
            /\ UNCHANGED pending
       ELSE /\ pc' = "awaitSave"
            /\ pending' = NewCodingChallenge(call.data)
            /\ UNCHANGED responses
    /\ UNCHANGED <<prompt, rawText, aiResponse, store, functionVars>>

\* What a stage does with the outcome of its parse and of the validator's call
StageOutcome(stage, parsed, call, next) ==
    /\ candidate' = parsed.v
    /\ trace' = Append(trace, [stage |-> stage, parsed |-> parsed.ok,
                               validator |-> call.outcome])
    /\ IF call.outcome \in {"none", "throws"}
       THEN /\ pc' = next
            /\ UNCHANGED <<pending, responses>>
       ELSE IF call.outcome = "responds"
       THEN /\ pc' = "done"
            /\ responses' = Append(responses,
                   Response(call.status, "Challenge data is incomplete", Undefined,
                            call.missingFields, ""))
            /\ UNCHANGED pending
       ELSE /\ pc' = "awaitSave"
            /\ pending' = NewCodingChallenge(call.data)
            /\ UNCHANGED responses
    /\ UNCHANGED <<prompt, rawText, aiResponse, store, functionVars>>

\* the validator is called only with a value that JSON.parse returned
NotCalled == [outcome |-> "none", status |-> 0, missingFields |-> <<>>, data |-> Undefined]

CallAfterParse(stage, parsed, wasRepaired, next) ==
    StageOutcome(stage, parsed,
                 IF parsed.ok THEN processAndSaveChallenge(parsed.v, prompt, wasRepaired)
                 ELSE NotCalled,
                 next)

\* One stage (lines 125-135, 138-151, 154-161): parse text; on success call
\* processAndSaveChallenge inside the stage's try block, so that an exception of either
\* leads to the next stage; otherwise the function returns.
Stage(stage, text, wasRepaired, next) ==
    /\ pc = stage
    /\ CallAfterParse(stage, JsonParse(text), wasRepaired, next)

\* lines 125-135
TryDirectParse == Stage("direct", aiResponse, FALSE, "syntax")

\* lines 138-151
TrySyntaxRepair == Stage("syntax", repairJsonSyntax(aiResponse), TRUE, "structural")

\* lines 154-165
TryStructuralRepair == Stage("structural", repairJsonStructure(aiResponse), TRUE, "fallback")

\* lines 168-179: new CodingChallenge({ ...fallbackChallenge, prompt, createdAt, userId,
\* wasRepaired: true, isFallback: true }); the model leaves out createdAt and userId
FallbackDocument(text, userPrompt) ==
    NewCodingChallenge(
        Set(Set(Set(createFallbackChallenge(text, userPrompt), F_prompt, Str(userPrompt)),
                F_wasRepaired, Bool(TRUE)),
            F_isFallback, Bool(TRUE)))

\* lines 167-181: the fallback document is built and its save() awaited
FallbackSynthesis ==
    /\ pc = "fallback"
    /\ trace' = Append(trace, [stage |-> "fallback", parsed |-> FALSE, validator |-> "none"])
    /\ pending' = FallbackDocument(aiResponse, prompt)
    /\ pc' = "awaitFallbackSave"
    /\ UNCHANGED <<prompt, rawText, aiResponse, candidate, responses, store, functionVars>>

\* lines 347-351: save() resolves; the validator's callback answers 201 with the document
SaveResolves ==
    /\ pc = "awaitSave"
    /\ SchemaAccepts(pending)
    /\ store' = Append(store, pending)
    /\ responses' = Append(responses, Response(201, "", pending, <<>>, ""))
    /\ pending' = NoDocument
    /\ pc' = "done"
    /\ UNCHANGED <<prompt, rawText, aiResponse, candidate, trace, functionVars>>

\* lines 352-358: save() rejects, the document failing validation; 500
SaveRejectsInvalid ==
    /\ pc = "awaitSave"
    /\ ~SchemaAccepts(pending)
    /\ responses' = Append(responses,
           Response(500, "Error saving challenge", Undefined, <<>>, "validation"))
    /\ pending' = NoDocument
    /\ pc' = "done"
    /\ UNCHANGED <<prompt, rawText, aiResponse, candidate, trace, store, functionVars>>

\* lines 352-358: save() rejects, the store failing; 500
SaveFails ==
    /\ pc = "awaitSave"
    /\ SchemaAccepts(pending)
    /\ responses' = Append(responses,
           Response(500, "Error saving challenge", Undefined, <<>>, "store"))
    /\ pending' = NoDocument
    /\ pc' = "done"
    /\ UNCHANGED <<prompt, rawText, aiResponse, candidate, trace, store, functionVars>>

\* lines 181-186: the fallback's save() resolves; 201 with the document and a warning
FallbackSaveResolves ==
    /\ pc = "awaitFallbackSave"
    /\ SchemaAccepts(pending)
    /\ store' = Append(store, pending)
    /\ responses' = Append(responses,
           Response(201, "", Set(pending, F_warning, Str(FallbackWarning)), <<>>, ""))
    /\ pending' = NoDocument
    /\ pc' = "done"
    /\ UNCHANGED <<prompt, rawText, aiResponse, candidate, trace, functionVars>>

\* lines 187-195: the fallback's save() rejects, the document failing validation; 500
FallbackSaveRejectsInvalid ==
    /\ pc = "awaitFallbackSave"
    /\ ~SchemaAccepts(pending)
    /\ responses' = Append(responses,
           Response(500, "Failed to process AI response", Undefined, <<>>, "parse"))
    /\ pending' = NoDocument
    /\ pc' = "done"
    /\ UNCHANGED <<prompt, rawText, aiResponse, candidate, trace, store, functionVars>>

\* lines 187-195: the fallback's save() rejects, the store failing; 500 with the message
\* of the parse error, as above
FallbackSaveFails ==
    /\ pc = "awaitFallbackSave"
    /\ SchemaAccepts(pending)
    /\ responses' = Append(responses,
           Response(500, "Failed to process AI response", Undefined, <<>>, "parse"))
    /\ pending' = NoDocument
    /\ pc' = "done"
    /\ UNCHANGED <<prompt, rawText, aiResponse, candidate, trace, store, functionVars>>

Next ==
    \/ RejectMissingPrompt
    \/ CallGeneration
    \/ GenerationFails
    \/ GenerationReturns
    \/ TryDirectParse
    \/ TrySyntaxRepair
    \/ TryStructuralRepair
    \/ FallbackSynthesis
    \/ SaveResolves
    \/ SaveRejectsInvalid
    \/ SaveFails
    \/ FallbackSaveResolves
    \/ FallbackSaveRejectsInvalid
    \/ FallbackSaveFails

Spec == Init /\ [][Next]_vars

\* The request makes progress: the controller runs on to its next await, and each
\* awaited promise (the generation call of line 89, save() of lines 181 and 347)
\* settles, resolved or rejected.  This is weak fairness of Next, WF_vars(Next), with
\* ENABLED <<Next>>_vars written as its value pc # "done": every action is a guard on
\* pc, prompt and pending followed by assignments, and in each position but done one
\* of the guards holds.  (ENABLED would make TLC evaluate the parsers once more for
\* every use of an operator's parameter.)
Progress == []<>(pc = "done") \/ []<><<Next>>_vars

SpecFair == Spec /\ Progress

(***************************************************************************)
(* Specification of repairJsonSyntax as a pure function: a text is drawn   *)
(* and the function is applied to it, then to its own output.              *)
(***************************************************************************)
MaxSyntaxLen == 4

SyntaxAlphabet == {LBRACE, RBRACE, LBRACK, RBRACK, Q, NL, SOH, " "}

RECURSIVE TextsUpTo(_, _)
TextsUpTo(alphabet, n) ==
    IF n = 0 THEN {<<>>}
    ELSE LET shorter == TextsUpTo(alphabet, n - 1)
         IN  shorter \cup {Append(t, c) : t \in {u \in shorter : Len(u) = n - 1}, c \in alphabet}

SyntaxInit ==
    /\ RequestIdle
    /\ fx \in TextsUpTo(SyntaxAlphabet, MaxSyntaxLen)
    /\ fOnce = <<>>
    /\ fTwice = <<>>
    /\ fPc = "input"

SyntaxRepairOnce ==
    /\ fPc = "input"
    /\ fOnce' = repairJsonSyntax(fx)
    /\ fPc' = "once"
    /\ UNCHANGED <<fx, fTwice, requestVars>>

SyntaxRepairTwice ==
    /\ fPc = "once"
    /\ fTwice' = repairJsonSyntax(fOnce)
    /\ fPc' = "twice"
    /\ UNCHANGED <<fx, fOnce, requestVars>>

SyntaxNext == SyntaxRepairOnce \/ SyntaxRepairTwice

SpecSyntax == SyntaxInit /\ [][SyntaxNext]_vars

(***************************************************************************)
(* Specification of the validator as a function of its arguments: a        *)
(* candidate is drawn, processAndSaveChallenge is applied to it, and the   *)
(* document is built from what it hands to the constructor.                *)
(***************************************************************************)
MaxPublic == 2

MaxPrivate == 10

\* what JSON.parse returns for a challenge with the given numbers of test cases
Candidate(scalars, public, private) ==
    JsonParse(ChallengeText(scalars, CasesText(public, <<",">>), CasesText(private, <<",">>),
                            <<",">> \o ExplanationMember)).v

\* the elements a test-case array of the answer may hold besides a complete test case
E_empty ==
    <<"{", "}">>

E_numericInput ==
    <<"{", "\"", "i", "n", "p", "u", "t", "\"", ":", "7", ",", "\"", "o", "u", "t", "p",
      "u", "t", "\"", ":", "\"", "\"", "}">>

E_inputOnly ==
    <<"{", "\"", "i", "n", "p", "u", "t", "\"", ":", "\"", "1", "\"", "}">>

E_null ==
    <<"n", "u", "l", "l">>

E_number ==
    <<"7">>

E_string ==
    <<"\"", "s", "\"">>

ElementTexts == {CaseText, E_empty, E_numericInput, E_inputOnly, E_null, E_number, E_string}

\* what JSON.parse returns for a challenge whose arrays begin with the given elements
ElementsCandidate(public, private, edge) ==
    JsonParse(<<LBRACE>> \o ScalarsEasy \o <<",">>
                  \o ArrayMember(F_publicTestCases, public) \o <<",">>
                  \o ArrayMember(F_privateTestCases,
                                 private \o <<",">> \o CasesText(3, <<",">>)) \o <<",">>
                  \o ArrayMember(F_edgeCases, edge) \o <<",">> \o ExplanationMember
                  \o <<RBRACE>>).v

Candidates ==
    {Candidate(scalars, public, private) :
         scalars \in {ScalarsEasy, ScalarsExtreme}, public \in 0..MaxPublic,
         private \in 0..MaxPrivate}
        \cup {ElementsCandidate(public, private, edge) :
                  public \in ElementTexts, private \in ElementTexts, edge \in ElementTexts}

ValidatorInit ==
    /\ RequestIdle
    /\ \E challengeData \in Candidates, wasRepaired \in BOOLEAN :
           fx = [challengeData |-> challengeData, wasRepaired |-> wasRepaired]
    /\ fOnce = <<>>
    /\ fTwice = <<>>
    /\ fPc = "input"

\* lines 207-345
ValidatorCall ==
    /\ fPc = "input"
    /\ fOnce' = processAndSaveChallenge(fx.challengeData, PromptTwoSum, fx.wasRepaired)
    /\ fPc' = "once"
    /\ UNCHANGED <<fx, fTwice, requestVars>>

\* lines 339-345: the document the constructor builds
ValidatorConstructs ==
    /\ fPc = "once"
    /\ fOnce.outcome = "saves"
    /\ fTwice' = NewCodingChallenge(fOnce.data)
    /\ fPc' = "twice"
    /\ UNCHANGED <<fx, fOnce, requestVars>>

ValidatorNext == ValidatorCall \/ ValidatorConstructs

SpecValidator == ValidatorInit /\ [][ValidatorNext]_vars

(***************************************************************************)
(* Specification of preprocessMarkdown as a pure function: a text is drawn *)
(* and the function is applied to it, then to its own output.              *)
(***************************************************************************)
MaxMarkdownLen == 3

MarkdownAlphabet == {PIPE, " ", "a", NL, "-"}

M_table ==
    <<"|", " ", "a", " ", "|", " ", "b", " ", "|", NL, "|", " ", "1", " ", "|", " ", "2",
      " ", "|">>

M_tableCompact ==
    <<"|", "a", "|", "b", "|", NL, "|", "1", "|", "2", "|">>

M_tableNamed ==
    <<"|", " ", "i", "d", " ", "|", " ", "n", "a", "m", "e", " ", "|", NL, "|", " ", "7",
      " ", "|", " ", "x", " ", "|">>

M_tableSeparated ==
    <<"|", " ", "a", " ", "|", " ", "b", " ", "|", NL, "|", "-", "-", "-", "|", "-", "-",
      "-", "|", NL, "|", " ", "1", " ", "|", " ", "2", " ", "|">>


M_sql ==
    Fence \o <<"s", "q", "l", NL, "s", "e", "l", "e", "c", "t", " ", "a", " ", "f", "r",
               "o", "m", " ", "t", " ", "o", "r", "d", "e", "r", " ", "b", "y", " ", "a",
               NL>> \o Fence

M_sqlTable ==
    Fence \o <<"S", "Q", "L", " ", NL, "|", "a", "|", NL, "S", "E", "L", "E", "C", "T",
               " ", "1">> \o Fence \o <<"x">>

M_code ==
    Fence \o <<"j", "s", " ", NL, "x", NL>> \o Fence \o <<"y">>

\* a header row of two columns, and a data row on the next line
TwoColumnTables == {M_table, M_tableCompact, M_tableNamed}

MarkdownSamples == TwoColumnTables \cup {M_tableSeparated, M_sql, M_sqlTable, M_code}

MarkdownInit ==
    /\ RequestIdle
    /\ fx \in TextsUpTo(MarkdownAlphabet, MaxMarkdownLen) \cup MarkdownSamples
    /\ fOnce = <<>>
    /\ fTwice = <<>>
    /\ fPc = "input"

MarkdownOnce ==
    /\ fPc = "input"
    /\ fOnce' = preprocessMarkdown(fx)
    /\ fPc' = "once"
    /\ UNCHANGED <<fx, fTwice, requestVars>>

MarkdownTwice ==
    /\ fPc = "once"
    /\ fTwice' = preprocessMarkdown(fOnce)
    /\ fPc' = "twice"
    /\ UNCHANGED <<fx, fOnce, requestVars>>

MarkdownNext == MarkdownOnce \/ MarkdownTwice

SpecMarkdown == MarkdownInit /\ [][MarkdownNext]_vars

(***************************************************************************)
(* Vocabulary of the properties.                                           *)
(***************************************************************************)
\* the response the request ended with
LastResponse == responses[Len(responses)]

\* the request has ended
Answered == pc = "done" /\ responses # <<>>

\* the request entered the stage
Entered(stage) == \E i \in 1..Len(trace) : trace[i].stage = stage

\* the request ended in 500 because the store failed on a document that passes validation
StoreFailed ==
    /\ Answered
    /\ LastResponse.status = 500
    /\ \/ LastResponse.error = "store"
       \/ Entered("fallback") /\ SchemaAccepts(FallbackDocument(aiResponse, prompt))

\* the call of the generation service failed
GenerationFailed == pc = "done" /\ prompt # <<>> /\ trace = <<>>

\* the number of elements of doc[field], 0 when it is no array
Size(doc, field) == IF IsArray(Get(doc, field)) THEN Len(Get(doc, field).m) ELSE 0

StageOrder == <<"direct", "syntax", "structural", "fallback">>

\* the number of unescaped quotes before position i is odd
InsideString(s, i) ==
    Cardinality({q \in 1..(i - 1) : s[q] = Q /\ (q = 1 \/ s[q - 1] # BS)}) % 2 = 1

\* the closers outside strings that an opener follows, possibly after white space
AdjacentOutsideStrings(s) ==
    {i \in 1..Len(s) :
        /\ s[i] \in {RBRACE, RBRACK}
        /\ ~InsideString(s, i)
        /\ SkipSpace(s, i + 1) <= Len(s)
        /\ s[SkipSpace(s, i + 1)] \in {LBRACE, LBRACK}}

\* the lines of a text
LinesOf(s) ==
    LET breaks == {i \in 1..Len(s) : s[i] = NL} \cup {0, Len(s) + 1}
        Nth(n) == CHOOSE b \in breaks : Cardinality({c \in breaks : c < b}) = n
    IN  [n \in 1..(Cardinality(breaks) - 1) |-> SubSeq(s, Nth(n - 1) + 1, Nth(n) - 1)]

\* the cells of a table row, trimmed: the texts between its pipes
CellsOf(line) ==
    LET pipes == {i \in 1..Len(line) : line[i] = PIPE}
        Nth(n) == CHOOSE b \in pipes : Cardinality({c \in pipes : c < b}) = n - 1
    IN  IF pipes = {} THEN <<>>
        ELSE [n \in 1..(Cardinality(pipes) - 1) |->
                 Trim(SubSeq(line, Nth(n) + 1, Nth(n + 1) - 1))]

\* a row that begins and ends with a pipe and whose cells are dashes, columns of them
IsSeparatorRow(line, columns) ==
    /\ Trim(line) # <<>>
    /\ Trim(line)[1] = PIPE
    /\ Trim(line)[Len(Trim(line))] = PIPE
    /\ Len(CellsOf(line)) = columns
    /\ \A n \in 1..columns :
           CellsOf(line)[n] # <<>> /\ \A k \in 1..Len(CellsOf(line)[n]) : CellsOf(line)[n][k] = "-"

(***************************************************************************)
(* The claims.                                                             *)
(***************************************************************************)
\* C1: whatever text the generation service returns, the request ends with a 201 whose
\* record has at least 2 public, exactly 4 private and exactly 1 edge test case, never
\* with a 400 or a 500 (the store itself failing set aside).
C1_JsonPathIsTotal ==
    (Answered /\ trace # <<>> /\ ~StoreFailed) =>
        /\ LastResponse.status = 201
        /\ Size(LastResponse.body, F_publicTestCases) >= 2
        /\ Size(LastResponse.body, F_privateTestCases) = 4
        /\ Size(LastResponse.body, F_edgeCases) = 1

\* C1, the case that fails: the text {} parses at the first stage and the request ends
\* with 400 and no record
C1_EmptyObjectAnswered400 ==
    /\ rawText = R_emptyObject
    /\ Answered
    /\ trace = <<[stage |-> "direct", parsed |-> TRUE, validator |-> "responds"]>>
    /\ LastResponse.status = 400
    /\ store = <<>>

\* C2: the stages are entered in the order direct, syntax, structural, fallback; a stage
\* is followed by another only if its parse failed; a stage whose parse succeeded called
\* the validator and was the last one.
C2_StagesInOrder ==
    /\ Len(trace) <= Len(StageOrder)
    /\ \A i \in 1..Len(trace) : trace[i].stage = StageOrder[i]
    /\ \A i \in 1..(Len(trace) - 1) : ~trace[i].parsed
    /\ \A i \in 1..Len(trace) :
           trace[i].parsed =>
               /\ trace[i].validator # "none"
               /\ i = Len(trace)
               /\ pc \in {"awaitSave", "done"}

\* C2, the case that fails: the text null parses at each of the three stages, the
\* validator throws on it each time, and every later stage runs
C2_NullRunsEveryStage ==
    /\ rawText = R_null
    /\ Len(trace) = 4
    /\ \A i \in 1..3 : trace[i].parsed /\ trace[i].validator = "throws"
    /\ trace[4].stage = "fallback"

\* C3: the record a 201 returns, and the one stored with it, has wasRepaired true exactly
\* when the request went through a repair stage, isFallback true exactly when the fallback
\* ran, and the warnings the validator accumulated.
C3_FlagsCarried ==
    (Answered /\ LastResponse.status = 201) =>
        \A doc \in {LastResponse.body, store[Len(store)]} :
            /\ Truthy(Get(doc, F_wasRepaired)) <=> Entered("syntax")
            /\ Truthy(Get(doc, F_isFallback)) <=> Entered("fallback")
            /\ ~Entered("fallback") =>
                   Get(doc, F_validationWarning)
                       = Get(ValidatedChallenge(candidate), F_validationWarning)

\* C3, the case that fails: a record produced by the syntax repair stage is stored and
\* returned without wasRepaired
C3_RepairedRecordWithoutFlag ==
    /\ rawText = R_adjacent
    /\ Answered
    /\ LastResponse.status = 201
    /\ Entered("syntax")
    /\ Get(LastResponse.body, F_wasRepaired) = Undefined
    /\ Get(store[Len(store)], F_wasRepaired) = Undefined

\* C4: when the call of the generation service fails, the request ends with a 201 whose
\* record has isFallback true and the title made from the prompt.
C4_GenerationFailureFallsBack ==
    GenerationFailed =>
        /\ LastResponse.status = 201
        /\ Truthy(Get(LastResponse.body, F_isFallback))
        /\ Get(LastResponse.body, F_title) = Str(CodingChallengePrefix \o FirstFiveWords(prompt))

\* C4, the case that fails: the request ends with 500 and nothing is stored
C4_GenerationFailureAnswered500 ==
    /\ GenerationFailed
    /\ LastResponse.status = 500
    /\ LastResponse.message = "Error generating challenge"
    /\ store = <<>>

\* C5: for a candidate with 0 to 10 private test cases and every required field, the
\* validator's record, and the document built from it, has exactly 4 private test cases.
C5_ExactlyFourPrivate ==
    /\ fPc \in {"once", "twice"} =>
           /\ fOnce.outcome = "saves"
           /\ Size(fOnce.data, F_privateTestCases) = 4
    /\ fPc = "twice" => Size(fTwice, F_privateTestCases) = 4

\* C5, the case that fails: 5 private test cases stay 5
C5_FivePrivateKept ==
    /\ fPc = "twice"
    /\ Size(fx.challengeData, F_privateTestCases) = 5
    /\ Size(fOnce.data, F_privateTestCases) = 5
    /\ Size(fTwice, F_privateTestCases) = 5

\* C6: for the text cut after one complete element of publicTestCases, the structural
\* repair's output parses to an array of exactly one element, the fallback is not
\* reached, and the request ends with wasRepaired true and isFallback false.
C6_TruncationRepaired ==
    rawText = R_truncated =>
        /\ Len(trace) >= 3 =>
               /\ trace[3].parsed
               /\ Size(candidate, F_publicTestCases) = 1
        /\ ~Entered("fallback")
        /\ (Answered /\ ~StoreFailed) =>
               /\ LastResponse.status = 201
               /\ Truthy(Get(LastResponse.body, F_wasRepaired))
               /\ ~Truthy(Get(LastResponse.body, F_isFallback))

\* C6, the case that fails: no stage parses the text, the fallback runs, and its document
\* is rejected
C6_TruncationEndsInFallback ==
    /\ rawText = R_truncated
    /\ Answered
    /\ Len(trace) = 4
    /\ \A i \in 1..4 : ~trace[i].parsed
    /\ LastResponse.status = 500
    /\ store = <<>>

\* C7: repairJsonSyntax applied to its own output returns that output.
C7_SyntaxRepairIdempotent ==
    fPc = "twice" => fTwice = fOnce

\* C7, the case that fails: a control character between a closing and an opening brace
\* is removed by the first application, and the second inserts a comma
C7_ControlCharacterBetweenBraces ==
    /\ fx = <<RBRACE, SOH, LBRACE>>
    /\ fPc = "twice"
    /\ fOnce = <<RBRACE, LBRACE>>
    /\ fTwice = <<RBRACE, ",", LBRACE>>

\* C8: repairJsonSyntax adds exactly one comma for each closing brace or bracket outside
\* a string that an opening brace or bracket follows, and no comma anywhere else.
C8_CommasOnlyOutsideStrings ==
    fPc \in {"once", "twice"} =>
        CountChar(fOnce, ",") = CountChar(fx, ",") + Cardinality(AdjacentOutsideStrings(fx))

\* C8, the case that fails: a comma is put into the string literal "}{"
C8_CommaInsideString ==
    /\ fx = <<Q, RBRACE, LBRACE, Q>>
    /\ fPc = "once"
    /\ fOnce = <<Q, RBRACE, ",", LBRACE, Q>>

\* C9: preprocessMarkdown applied to its own output returns that output.
C9_MarkdownIdempotent ==
    fPc = "twice" => fTwice = fOnce

\* C9, the case that fails: each application adds a space before the closing pipe
C9_CellGrows ==
    /\ fx = <<PIPE, "a", PIPE>>
    /\ fPc = "twice"
    /\ fOnce = <<PIPE, " ", "a", " ", PIPE>>
    /\ fTwice = <<PIPE, " ", "a", " ", " ", PIPE>>

\* C10: for a header row of two columns with a data row on the next line, the output is
\* three lines: the header row, a separator row of exactly two dash cells, the data row.
C10_SeparatorInserted ==
    (fx \in TwoColumnTables /\ fPc \in {"once", "twice"}) =>
        /\ Len(LinesOf(fOnce)) = 3
        /\ CellsOf(LinesOf(fOnce)[1]) = CellsOf(LinesOf(fx)[1])
        /\ IsSeparatorRow(LinesOf(fOnce)[2], 2)
        /\ CellsOf(LinesOf(fOnce)[3]) = CellsOf(LinesOf(fx)[2])

\* C10, the case that fails: the output is one line and holds no dash
C10_RowsJoined ==
    /\ fx = M_table
    /\ fPc = "once"
    /\ Len(LinesOf(fOnce)) = 1
    /\ ~Includes(fOnce, <<"-">>)

(***************************************************************************)
(* Specification of createFallbackChallenge as a function of its           *)
(* arguments: a text and a prompt are drawn, the function is applied, and  *)
(* the document of lines 172-179 is built from its result.                 *)
(***************************************************************************)
MaxFallbackLen == 3

FallbackAlphabet == {Q, ":", "a", " "}

\* a difficultyLevel in lower case, which the enum does not hold
T_lowerHard ==
    <<"{", "\"", "d", "i", "f", "f", "i", "c", "u", "l", "t", "y", "L", "e", "v", "e",
      "l", "\"", " ", ":", " ", "\"", "h", "a", "r", "d", "\"">>

\* a label in upper case, which the "i" flag of line 534 accepts
T_upperLabel ==
    <<"\"", "T", "I", "T", "L", "E", "\"", ":", "\"", "x", "\"", ",", "\"", "D", "I", "F",
      "F", "I", "C", "U", "L", "T", "Y", "L", "E", "V", "E", "L", "\"", ":", "\"", "M",
      "e", "d", "i", "u", "m", "\"">>

\* the texts the fallback is given: cleaned answers of the service and short texts
FallbackTexts ==
    {Cleanup(raw) : raw \in RawTexts} \cup {T_lowerHard, T_upperLabel}
        \cup TextsUpTo(FallbackAlphabet, MaxFallbackLen)

FallbackInit ==
    /\ RequestIdle
    /\ \E text \in FallbackTexts, userPrompt \in Prompts \ {<<>>} :
           fx = [aiResponse |-> text, prompt |-> userPrompt]
    /\ fOnce = <<>>
    /\ fTwice = <<>>
    /\ fPc = "input"

\* line 168
FallbackCreates ==
    /\ fPc = "input"
    /\ fOnce' = createFallbackChallenge(fx.aiResponse, fx.prompt)
    /\ fPc' = "once"
    /\ UNCHANGED <<fx, fTwice, requestVars>>

\* lines 172-179
FallbackConstructs ==
    /\ fPc = "once"
    /\ fTwice' = FallbackDocument(fx.aiResponse, fx.prompt)
    /\ fPc' = "twice"
    /\ UNCHANGED <<fx, fOnce, requestVars>>

FallbackNext == FallbackCreates \/ FallbackConstructs

SpecFallback == FallbackInit /\ [][FallbackNext]_vars

\* C13: for every text and prompt, createFallbackChallenge returns a record with
\* isFallback true, a difficultyLevel among Easy, Medium, Hard, at least 2 public,
\* exactly 4 private and exactly 1 edge test case, and the document built from it
\* passes the schema's validation.
C13_FallbackSchemaValid ==
    /\ fPc \in {"once", "twice"} =>
           /\ Get(fOnce, F_isFallback) = Bool(TRUE)
           /\ Get(fOnce, F_difficultyLevel).t = "string"
           /\ Get(fOnce, F_difficultyLevel).s \in DifficultyEnum
           /\ Size(fOnce, F_publicTestCases) >= 2
           /\ Size(fOnce, F_privateTestCases) = 4
           /\ Size(fOnce, F_edgeCases) = 1
    /\ fPc = "twice" => SchemaAccepts(fTwice)

\* C13, the case that fails: for the empty text the record has the difficultyLevel
\* "Default difficultyLevel" and one public test case, and the schema rejects the document
C13_EmptyTextRejected ==
    /\ fx.aiResponse = <<>>
    /\ fPc = "twice"
    /\ Get(fOnce, F_isFallback) = Bool(TRUE)
    /\ Get(fOnce, F_difficultyLevel) = Str(DefaultPrefix \o F_difficultyLevel)
    /\ Size(fOnce, F_publicTestCases) = 1
    /\ ~SchemaAccepts(fTwice)

\* a test case as the claim describes the validator's output: an object whose input
\* and output are non-empty strings
WellFormedCase(testCase) ==
    /\ testCase.t = "object"
    /\ \A side \in {F_input, F_output} :
           Get(testCase, side).t = "string" /\ Get(testCase, side).s # <<>>

\* C14: in what the validator hands to the constructor, every element of
\* publicTestCases, privateTestCases and edgeCases is an object with a non-empty string
\* input and a non-empty string output, whatever the candidate's elements were.
C14_EveryCaseHasStrings ==
    (fPc \in {"once", "twice"} /\ fOnce.outcome = "saves") =>
        \A field \in {F_publicTestCases, F_privateTestCases, F_edgeCases} :
            \A n \in 1..Size(fOnce.data, field) :
                WellFormedCase(Get(fOnce.data, field).m[n])

\* C14, the case that fails: a null public test case stays null, and the empty object
\* after it in privateTestCases is given no input and no output
C14_NullStopsValidation ==
    /\ fPc = "once"
    /\ fOnce.outcome = "saves"
    /\ Size(fx.challengeData, F_publicTestCases) = 1
    /\ Get(fx.challengeData, F_publicTestCases).m[1] = Null
    /\ Get(fx.challengeData, F_privateTestCases).m[1] = Obj(<<>>)
    /\ Get(fOnce.data, F_publicTestCases).m[1] = Null
    /\ Get(fOnce.data, F_privateTestCases).m[1] = Obj(<<>>)
    /\ Size(fOnce.data, F_privateTestCases) = 4

(***************************************************************************)
(* Specification of repairJsonStructure as a function of its argument: an  *)
(* object text with some of the required fields is drawn, the function is  *)
(* applied to it, and its result is given to JSON.parse (lines 154-157).   *)
(***************************************************************************)
MaxMembers == 3

\* the fields the drawn objects may hold: two with string values, two with arrays
MemberFields == {F_title, F_constraints, F_publicTestCases, F_edgeCases}

\* "field":"v" for a scalar field, "field":[test case] for an array field
MemberText(field) ==
    IF field \in testCaseFields THEN ArrayMember(field, CaseText)
    ELSE Quoted(field) \o <<":">> \o Quoted(<<"v">>)

\* the sequences of up to n distinct fields
RECURSIVE FieldLists(_)
FieldLists(n) ==
    IF n = 0 THEN {<<>>}
    ELSE LET shorter == FieldLists(n - 1)
         IN  shorter \cup {Append(l, f) : l \in {u \in shorter : Len(u) = n - 1},
                                         f \in MemberFields}

Distinct(list) == \A i, j \in 1..Len(list) : list[i] = list[j] => i = j

RECURSIVE MembersText(_)
MembersText(list) ==
    IF list = <<>> THEN <<>>
    ELSE IF Len(list) = 1 THEN MemberText(list[1])
    ELSE MemberText(list[1]) \o <<",">> \o MembersText(Tail(list))

\* every required field but explanation, ending in the edgeCases array
R_noExplanation ==
    ChallengeText(ScalarsEasy, CasesText(2, <<",">>), CasesText(4, <<",">>), <<>>)

StructureTexts ==
    {<<LBRACE>> \o MembersText(list) \o gap \o <<RBRACE>> :
         list \in {l \in FieldLists(MaxMembers) : Distinct(l)}, gap \in {<<>>, <<" ">>}}
        \cup {R_clean, R_noExplanation}
        \cup {Cleanup(raw) : raw \in RawTexts}

StructureInit ==
    /\ RequestIdle
    /\ fx \in StructureTexts
    /\ fOnce = <<>>
    /\ fTwice = <<>>
    /\ fPc = "input"

\* line 154
StructureRepairs ==
    /\ fPc = "input"
    /\ fOnce' = repairJsonStructure(fx)
    /\ fPc' = "once"
    /\ UNCHANGED <<fx, fTwice, requestVars>>

\* line 157
StructureParses ==
    /\ fPc = "once"
    /\ fTwice' = JsonParse(fOnce)
    /\ fPc' = "twice"
    /\ UNCHANGED <<fx, fOnce, requestVars>>

StructureNext == StructureRepairs \/ StructureParses

SpecStructure == StructureInit /\ [][StructureNext]_vars

\* the text is an object whose members are separated by commas and it has the field
HoldsField(parsed, field) ==
    parsed.ok /\ parsed.v.t = "object" /\ \E n \in 1..Len(parsed.v.m) : parsed.v.m[n].k = field

\* C15: for a text that is an object, the result of repairJsonStructure is an object
\* again: the members it had and the defaults injected before the final brace are all
\* separated by commas, and every required field is among them.
C15_InjectedMembersSeparated ==
    (fPc = "twice" /\ JsonParse(fx).ok /\ JsonParse(fx).v.t = "object") =>
        \A n \in 1..Len(requiredFields) : HoldsField(fTwice, requiredFields[n])

\* C15, the case that fails: after a member that ends in a string the first default is
\* injected without a comma, and so is every default after a scalar default
C15_DefaultJoinedToString ==
    /\ fPc = "twice"
    /\ fx = <<LBRACE>> \o MemberText(F_title) \o <<RBRACE>>
    /\ Includes(fOnce, Quoted(<<"v">>) \o Quoted(F_difficultyLevel))
    /\ Includes(fOnce, Quoted(DefaultPrefix \o F_difficultyLevel) \o Quoted(F_description))
    /\ Includes(fOnce, <<RBRACK, ",">> \o Quoted(F_explanation))
    /\ ~fTwice.ok

\* C17: a generateChallenge request never has more than one response or more than one
\* stored record, it is answered exactly when it has ended, and it does end: whether the
\* validator answers 400, throws before answering, or answers from the callback of its
\* save(), and whether the fallback's save() resolves or rejects.
C17_ExactlyOneResponse ==
    /\ [](/\ Len(responses) <= 1
          /\ Len(store) <= 1
          /\ (pc = "done" <=> Len(responses) = 1)
          /\ (pc = "done" => pending = NoDocument))
    /\ <>[](pc = "done" /\ Len(responses) = 1)

\* C17, the path where the validator throws in each of the three stages and the
\* request is answered once, by the fallback
C17_ThrowsThriceAnsweredOnce ==
    /\ pc = "done"
    /\ Len(trace) = 4
    /\ \A n \in 1..3 : trace[n].parsed /\ trace[n].validator = "throws"
    /\ trace[4].stage = "fallback"
    /\ Len(responses) = 1
    /\ Len(store) <= 1

(***************************************************************************)
(* generateMCQ (MCQChallengeController.js, lines 87-229) and the schema of *)
(* its documents (MCQChallengeSchema.js).                                   *)
(***************************************************************************)
F_question ==
    <<"q", "u", "e", "s", "t", "i", "o", "n">>

F_options ==
    <<"o", "p", "t", "i", "o", "n", "s">>

F_correctOptionId ==
    <<"c", "o", "r", "r", "e", "c", "t", "O", "p", "t", "i", "o", "n", "I", "d">>

F_id ==
    <<"i", "d">>

F_text ==
    <<"t", "e", "x", "t">>

L_TITLE ==
    <<"T", "I", "T", "L", "E", ":">>

L_DIFFICULTY ==
    <<"D", "I", "F", "F", "I", "C", "U", "L", "T", "Y", ":">>

L_QUESTION ==
    <<"Q", "U", "E", "S", "T", "I", "O", "N", ":">>

L_OPTIONS ==
    <<"O", "P", "T", "I", "O", "N", "S", ":">>

L_CORRECT ==
    <<"C", "O", "R", "R", "E", "C", "T", ":">>

L_EXPLANATION ==
    <<"E", "X", "P", "L", "A", "N", "A", "T", "I", "O", "N", ":">>

PromptRequiredMessage ==
    <<"P", "r", "o", "m", "p", "t", " ", "i", "s", " ", "r", "e", "q", "u", "i", "r",
      "e", "d">>

InvalidFormatMessage ==
    <<"I", "n", "v", "a", "l", "i", "d", " ", "r", "e", "s", "p", "o", "n", "s", "e",
      " ", "f", "o", "r", "m", "a", "t", " ", "f", "r", "o", "m", " ", "A", "I">>

InvalidOptionsMessage ==
    <<"I", "n", "v", "a", "l", "i", "d", " ", "n", "u", "m", "b", "e", "r", " ", "o",
      "f", " ", "o", "p", "t", "i", "o", "n", "s", " ", "i", "n", " ", "A", "I", " ",
      "r", "e", "s", "p", "o", "n", "s", "e">>

ErrorGeneratingMessage ==
    <<"E", "r", "r", "o", "r", " ", "g", "e", "n", "e", "r", "a", "t", "i", "n", "g",
      " ", "M", "C", "Q">>

\* the labels in the order of lines 155-166
SectionLabels == <<L_TITLE, L_DIFFICULTY, L_QUESTION, L_OPTIONS, L_CORRECT, L_EXPLANATION>>

\* the first position >= from where pat occurs without regard to case, 0 if none
FirstAtNoCase(s, pat, from) ==
    LET P == {i \in from..(Len(s) - Len(pat) + 1) : MatchesAtNoCase(s, i, pat)}
    IN  IF P = {} THEN 0 ELSE MinOf(P)

\* the first position >= i of s that holds a line terminator (Len(s) + 1 if none)
LineEnd(s, i) == MinOf({j \in i..Len(s) : s[j] \in {NL, CR}} \cup {Len(s) + 1})

NoSection == [found |-> FALSE, group |-> <<>>]

\* lines 155, 156, 163: s.match(/LABEL:\s*(.*)/i).  The white space after the label is
\* taken whole, line breaks included; the group runs to the end of the line it begins on.
MatchLine(s, label) ==
    LET at == FirstAtNoCase(s, label, 1)
        begin == SkipSpace(s, at + Len(label))
    IN  IF at = 0 THEN NoSection
        ELSE [found |-> TRUE, group |-> SubSeq(s, begin, LineEnd(s, begin) - 1)]

\* lines 157-162: s.match(/LABEL:\s*([\s\S]*?)(?=STOP:|$)/i).  The group runs to the
\* first place where the stop label begins, or to the end of the text.
MatchUntil(s, label, stop) ==
    LET at == FirstAtNoCase(s, label, 1)
        begin == SkipSpace(s, at + Len(label))
        stopAt == FirstAtNoCase(s, stop, begin)
    IN  IF at = 0 THEN NoSection
        ELSE [found |-> TRUE,
              group |-> SubSeq(s, begin, (IF stopAt = 0 THEN Len(s) + 1 ELSE stopAt) - 1)]

\* lines 164-166: s.match(/EXPLANATION:\s*([\s\S]*?)(?=$)/i): the group runs to the end
MatchToEnd(s, label) ==
    LET at == FirstAtNoCase(s, label, 1)
    IN  IF at = 0 THEN NoSection
        ELSE [found |-> TRUE, group |-> From(s, SkipSpace(s, at + Len(label)))]

\* lines 155-166: the six matches, in the order of SectionLabels
SectionMatches(s) ==
    <<MatchLine(s, L_TITLE), MatchLine(s, L_DIFFICULTY),
      MatchUntil(s, L_QUESTION, L_OPTIONS), MatchUntil(s, L_OPTIONS, L_CORRECT),
      MatchLine(s, L_CORRECT), MatchToEnd(s, L_EXPLANATION)>>

\* [A-D]: at position i
OptionHeadAt(s, i) == i >= 1 /\ i < Len(s) /\ s[i] \in {"A", "B", "C", "D"} /\ s[i + 1] = ":"

\* the first position >= from where [A-D]: begins, 0 if none
NextOptionHead(s, from) ==
    LET P == {i \in from..Len(s) : OptionHeadAt(s, i)}
    IN  IF P = {} THEN 0 ELSE MinOf(P)

Option(id, text) == Obj(<<[k |-> F_id, v |-> Str(id)], [k |-> F_text, v |-> Str(text)]>>)

\* lines 186-193: the exec loop of /([A-D]):\s*([\s\S]*?)(?=(?:[A-D]:|$))/g from
\* lastIndex on; each match ends where the next [A-D]: begins or at the end of the text
RECURSIVE ExecOptions(_, _)
ExecOptions(optionsText, lastIndex) ==
    LET at == NextOptionHead(optionsText, lastIndex)
        begin == SkipSpace(optionsText, at + 2)
        head == NextOptionHead(optionsText, begin)
        end == IF head = 0 THEN Len(optionsText) + 1 ELSE head
    IN  IF at = 0 THEN <<>>
        ELSE <<Option(<<optionsText[at]>>,
                      preprocessMarkdown(Trim(SubSeq(optionsText, begin, end - 1))))>>
                 \o ExecOptions(optionsText, end)

\* lines 182-193
optionsArray(optionsMatch) == ExecOptions(Trim(optionsMatch.group), 1)

\* lines 203-211
mcqData(matches, userPrompt) ==
    Obj(<<[k |-> F_title, v |-> Str(Trim(matches[1].group))],
          [k |-> F_difficultyLevel, v |-> Str(Trim(matches[2].group))],
          [k |-> F_question, v |-> Str(preprocessMarkdown(Trim(matches[3].group)))],
          [k |-> F_options, v |-> Arr(optionsArray(matches[4]))],
          [k |-> F_correctOptionId, v |-> Str(Trim(matches[5].group))],
          [k |-> F_explanation, v |-> Str(preprocessMarkdown(Trim(matches[6].group)))],
          [k |-> F_prompt, v |-> Str(userPrompt)]>>)

\* MCQChallengeSchema.js, lines 5-36: the paths, all required but options
MCQRequiredPaths ==
    {F_title, F_difficultyLevel, F_question, F_correctOptionId, F_explanation, F_prompt}

\* MCQChallengeSchema.js, line 13
MCQDifficultyEnum == {<<"E", "a", "s", "y">>, <<"M", "e", "d", "i", "u", "m">>, <<"H", "a", "r", "d">>}

\* lines 216-218: new MCQ({ ...mcqData }); title is trimmed (schema line 8), the other
\* paths are kept as they are; _id and the timestamps are left out
NewMCQ(data) == Set(data, F_title, Str(Trim(Get(data, F_title).s)))

\* the validation of save(): every required path holds a non-empty string and
\* difficultyLevel is in the enum; options has no validator
MCQSchemaAccepts(doc) ==
    /\ \A path \in MCQRequiredPaths : Get(doc, path).t = "string" /\ Get(doc, path).s # <<>>
    /\ Get(doc, F_difficultyLevel).s \in MCQDifficultyEnum

(***************************************************************************)
(* The answers the generation service may give to generateMCQ.             *)
(***************************************************************************)
\* four options A to D
O_abcd ==
    <<"A", ":", " ", "a", NL, "B", ":", " ", "b", NL, "C", ":", " ", "c", NL, "D", ":",
      " ", "d">>

\* three options
O_abc ==
    <<"A", ":", " ", "a", NL, "B", ":", " ", "b", NL, "C", ":", " ", "c">>

\* four options, two of them with the id A
O_aacd ==
    <<"A", ":", " ", "a", NL, "A", ":", " ", "b", NL, "C", ":", " ", "c", NL, "D", ":",
      " ", "d">>

\* five options
O_abcda ==
    <<"A", ":", " ", "a", NL, "B", ":", " ", "b", NL, "C", ":", " ", "c", NL, "D", ":",
      " ", "d", NL, "A", ":", " ", "e">>

\* three options, one of them with C: in its text
O_embedded ==
    <<"A", ":", " ", "a", NL, "B", ":", " ", "s", "e", "e", " ", "C", ":", " ", "c", NL,
      "D", ":", " ", "d">>

\* no option
O_none ==
    <<"n", "o", "n", "e">>

OptionTexts == {O_abcd, O_abc, O_aacd, O_abcda, O_embedded, O_none}

CorrectTexts == {<<"B">>, <<"E">>, <<>>}

DifficultyTexts == {<<"E", "a", "s", "y">>, <<"E", "x", "t", "r", "e", "m", "e">>}

\* label, body and a line break, or nothing if the section is absent
Section(present, label, body) ==
    IF label \in present THEN label \o <<" ">> \o body \o <<NL>> ELSE <<>>

\* an answer with the sections of present, in the order of the prompt (lines 129-139)
MCQText(present, difficulty, options, correct) ==
    Section(present, L_TITLE, <<"t">>) \o Section(present, L_DIFFICULTY, difficulty)
        \o Section(present, L_QUESTION, <<"q">>)
        \o Section(present, L_OPTIONS, <<NL>> \o options)
        \o Section(present, L_CORRECT, correct) \o Section(present, L_EXPLANATION, <<"e">>)

AllSections == {SectionLabels[n] : n \in 1..Len(SectionLabels)}

\* the labels in lower case, which the "i" flag accepts
T_lowerLabels ==
    <<"t", "i", "t", "l", "e", ":", " ", "t", NL, "d", "i", "f", "f", "i", "c", "u", "l",
      "t", "y", ":", " ", "E", "a", "s", "y", NL, "q", "u", "e", "s", "t", "i", "o", "n",
      ":", " ", "q", NL, "o", "p", "t", "i", "o", "n", "s", ":", NL, "A", ":", " ", "a",
      NL, "B", ":", " ", "b", NL, "C", ":", " ", "c", NL, "D", ":", " ", "d", NL, "c",
      "o", "r", "r", "e", "c", "t", ":", " ", "B", NL, "e", "x", "p", "l", "a", "n", "a",
      "t", "i", "o", "n", ":", " ", "e", NL>>

MCQTexts ==
    {MCQText(present, <<"E", "a", "s", "y">>, O_abcd, <<"B">>) : present \in SUBSET AllSections}
        \cup {MCQText(AllSections, difficulty, options, correct) :
                  difficulty \in DifficultyTexts, options \in OptionTexts,
                  correct \in CorrectTexts}
        \cup {T_lowerLabels}

(***************************************************************************)
(* generateMCQ as actions on the request's state.  pc is start,            *)
(* awaitGeneration, parse, awaitSave or done; candidate is mcqData.        *)
(***************************************************************************)
\* lines 90-92: no prompt, 400
MCQRejectMissingPrompt ==
    /\ pc = "start"
    /\ prompt = <<>>
    /\ responses' = Append(responses, Response(400, PromptRequiredMessage, Undefined, <<>>, ""))
    /\ pc' = "done"
    /\ UNCHANGED <<prompt, rawText, aiResponse, candidate, trace, pending, store, functionVars>>

\* line 94: the call of the generation service, awaited
MCQCallGeneration ==
    /\ pc = "start"
    /\ prompt # <<>>
    /\ pc' = "awaitGeneration"
    /\ UNCHANGED <<prompt, rawText, aiResponse, candidate, trace, pending, responses, store,
                   functionVars>>

\* lines 222-228: the call rejects; the catch answers 500
MCQGenerationFails ==
    /\ pc = "awaitGeneration"
    /\ responses' = Append(responses,
                           Response(500, ErrorGeneratingMessage, Undefined, <<>>, "generation"))
    /\ pc' = "done"
    /\ UNCHANGED <<prompt, rawText, aiResponse, candidate, trace, pending, store, functionVars>>

\* line 151: the call returns a text
MCQGenerationReturns ==
    /\ pc = "awaitGeneration"
    /\ \E raw \in MCQTexts :
           /\ rawText' = raw
           /\ aiResponse' = raw
    /\ pc' = "parse"
    /\ UNCHANGED <<prompt, candidate, trace, pending, responses, store, functionVars>>

\* the labels of lines 155-166 that have no match in the text
AbsentLabels(s) == {SectionLabels[n] : n \in {m \in 1..6 : ~SectionMatches(s)[m].found}}

\* lines 168-179: a match is null; 500, and the function returns
RefuseMissingSections ==
    /\ pc = "parse"
    /\ AbsentLabels(aiResponse) # {}
    /\ responses' = Append(responses, Response(500, InvalidFormatMessage, Undefined, <<>>, ""))
    /\ pc' = "done"
    /\ UNCHANGED <<prompt, rawText, aiResponse, candidate, trace, pending, store, functionVars>>

\* RefuseOptionCount as it would be if a wrong number of options were not refused: the
\* document is built from the options that were found and save() is awaited
KeepOptionCount ==
    /\ pc = "parse"
    /\ AbsentLabels(aiResponse) = {}
    /\ Len(optionsArray(SectionMatches(aiResponse)[4])) # 4
    /\ candidate' = mcqData(SectionMatches(aiResponse), prompt)
    /\ pending' = NewMCQ(mcqData(SectionMatches(aiResponse), prompt))
    /\ pc' = "awaitSave"
    /\ UNCHANGED <<prompt, rawText, aiResponse, trace, responses, store, functionVars>>

\* lines 182-200: the options are not 4; 500, and the function returns
RefuseOptionCount ==
    /\ pc = "parse"
    /\ AbsentLabels(aiResponse) = {}
    /\ Len(optionsArray(SectionMatches(aiResponse)[4])) # 4
    /\ responses' = Append(responses, Response(500, InvalidOptionsMessage, Undefined, <<>>, ""))
    /\ pc' = "done"
    /\ UNCHANGED <<prompt, rawText, aiResponse, candidate, trace, pending, store, functionVars>>

\* lines 203-220: mcqData and the document are built and save() is awaited
ConstructMCQ ==
    /\ pc = "parse"
    /\ AbsentLabels(aiResponse) = {}
    /\ Len(optionsArray(SectionMatches(aiResponse)[4])) = 4
    /\ candidate' = mcqData(SectionMatches(aiResponse), prompt)
    /\ pending' = NewMCQ(mcqData(SectionMatches(aiResponse), prompt))
    /\ pc' = "awaitSave"
    /\ UNCHANGED <<prompt, rawText, aiResponse, trace, responses, store, functionVars>>

\* lines 220-221: save() resolves; 201 with the document
MCQSaveResolves ==
    /\ pc = "awaitSave"
    /\ MCQSchemaAccepts(pending)
    /\ store' = Append(store, pending)
    /\ responses' = Append(responses, Response(201, <<>>, pending, <<>>, ""))
    /\ pending' = NoDocument
    /\ pc' = "done"
    /\ UNCHANGED <<prompt, rawText, aiResponse, candidate, trace, functionVars>>

\* lines 222-228: save() rejects, the document failing validation; 500
MCQSaveRejectsInvalid ==
    /\ pc = "awaitSave"
    /\ ~MCQSchemaAccepts(pending)
    /\ responses' = Append(responses,
                           Response(500, ErrorGeneratingMessage, Undefined, <<>>, "validation"))
    /\ pending' = NoDocument
    /\ pc' = "done"
    /\ UNCHANGED <<prompt, rawText, aiResponse, candidate, trace, store, functionVars>>

\* lines 222-228: save() rejects, the store failing; 500
MCQSaveFails ==
    /\ pc = "awaitSave"
    /\ MCQSchemaAccepts(pending)
    /\ responses' = Append(responses,
                           Response(500, ErrorGeneratingMessage, Undefined, <<>>, "store"))
    /\ pending' = NoDocument
    /\ pc' = "done"
    /\ UNCHANGED <<prompt, rawText, aiResponse, candidate, trace, store, functionVars>>

MCQNext ==
    \/ MCQRejectMissingPrompt
    \/ MCQCallGeneration
    \/ MCQGenerationFails
    \/ MCQGenerationReturns
    \/ RefuseMissingSections
    \/ RefuseOptionCount
    \/ ConstructMCQ
    \/ MCQSaveResolves
    \/ MCQSaveRejectsInvalid
    \/ MCQSaveFails

SpecMCQ == Init /\ [][MCQNext]_vars

(***************************************************************************)
(* Claims about generateMCQ.                                               *)
(***************************************************************************)
OptionIds == {<<"A">>, <<"B">>, <<"C">>, <<"D">>}

\* the ids of a document's options, in order
IdsOf(doc) ==
    [n \in 1..Size(doc, F_options) |-> Get(Get(doc, F_options).m[n], F_id).s]

\* the text was returned by the generation service and line 151 has run
TextReturned ==
    \/ pc \in {"parse", "awaitSave"}
    \/ pc = "done" /\ prompt # <<>> /\ LastResponse.error # "generation"

\* the text lacks a section or does not yield 4 options
StructurallyRefused(s) ==
    AbsentLabels(s) # {} \/ Len(optionsArray(SectionMatches(s)[4])) # 4

\* the response names the label: in its message or in a list of missing fields
NamesLabel(response, label) ==
    LET name == SubSeq(label, 1, Len(label) - 1)
    IN  \/ FirstAtNoCase(response.message, name, 1) # 0
        \/ \E n \in 1..Len(response.missingFields) : response.missingFields[n] = name

\* C11: every record generateMCQ stores has exactly 4 options, their ids are A, B, C and
\* D, each once, and its correctOptionId is one of them.
C11_StoredRecordHasOptionsAToD ==
    \A r \in 1..Len(store) :
        /\ Size(store[r], F_options) = 4
        /\ {IdsOf(store[r])[n] : n \in 1..4} = OptionIds
        /\ Get(store[r], F_correctOptionId).s \in OptionIds

\* C11, the case that fails: four options of which two have the id A are stored, with
\* B, an id that no option has, as correctOptionId
C11_DuplicateIdStored ==
    /\ pc = "done"
    /\ rawText = MCQText(AllSections, <<"E", "a", "s", "y">>, O_aacd, <<"B">>)
    /\ Len(store) = 1
    /\ IdsOf(store[1]) = <<<<"A">>, <<"A">>, <<"C">>, <<"D">>>>
    /\ Get(store[1], F_correctOptionId).s = <<"B">>
    /\ LastResponse.status = 201

\* C12: when the text lacks sections, the refusal names every label that is absent.
C12_RefusalNamesAbsentLabels ==
    (pc = "done" /\ TextReturned /\ AbsentLabels(rawText) # {}) =>
        \A label \in AbsentLabels(rawText) : NamesLabel(LastResponse, label)

\* C12, the case that fails: the text lacks only CORRECT:, and the refusal is the fixed
\* message, with no label in it
C12_MissingCorrectUnnamed ==
    /\ pc = "done"
    /\ rawText = MCQText(AllSections \ {L_CORRECT}, <<"E", "a", "s", "y">>, O_abcd, <<"B">>)
    /\ AbsentLabels(rawText) = {L_CORRECT}
    /\ LastResponse = Response(500, InvalidFormatMessage, Undefined, <<>>, "")
    /\ store = <<>>

\* C16: for a text that lacks a section or does not yield 4 options, nothing is built,
\* awaited or stored, and the request ends with the one response that states the
\* refusal: 500 with the message of the refusal and no document.
C16_RefusalStoresNothing ==
    (TextReturned /\ StructurallyRefused(rawText)) =>
        /\ store = <<>>
        /\ pending = NoDocument
        /\ candidate = Undefined
        /\ pc \in {"parse", "done"}
        /\ pc = "done" =>
               responses = <<Response(500,
                                      IF AbsentLabels(rawText) # {} THEN InvalidFormatMessage
                                      ELSE InvalidOptionsMessage,
                                      Undefined, <<>>, "")>>

\* C16, the case: three options; the request is refused with 500 and the store is empty
C16_ThreeOptionsRefused ==
    /\ pc = "done"
    /\ rawText = MCQText(AllSections, <<"E", "a", "s", "y">>, O_abc, <<"B">>)
    /\ Len(optionsArray(SectionMatches(rawText)[4])) = 3
    /\ responses = <<Response(500, InvalidOptionsMessage, Undefined, <<>>, "")>>
    /\ store = <<>>
    /\ pending = NoDocument

====
